---- MODULE Spec2Model ----
(***************************************************************************)
(* Content-distribution and playback-readiness engine of the video client: *)
(* the recommendation ranker (applySmartRecommendations), the section      *)
(* allocator (distributedContent / pickVideos), the marquee carousel       *)
(* (InteractiveMarquee) and the byte-range prefetch cache (smartCache).    *)
(*                                                                         *)
(* The repository holds two generations of the same files.  `build` says   *)
(* which one a behaviour runs:                                             *)
(*   "src"  - src/unnamed/part_005 (App), src/unnamed/part_003             *)
(*            (MainContent), src/src/CustomDynamicLayout.tsx,              *)
(*            src/src/smartCache.ts                                        *)
(*   "root" - src/MainContent.tsx (MainContent and App), src/smartCache.ts *)
(***************************************************************************)
EXTENDS Integers, Sequences, FiniteSets, TLC

VARIABLES
    build,          \* "src" | "root": the generation of the files that runs
    \* ---- the ranker and its inputs (part_005:26-97, MainContent.tsx:930-1017)
    rawVideos,      \* useState rawVideos: the pool, a sequence of Video
    interactions,   \* useState interactions: likedIds, dislikedIds, watchHistory
    userInterests,  \* SmartBrain.localInterests, read by getTopInterests()
    ranked,         \* the list the last ranker call returned
    prevRanked,     \* the list the ranker call before it returned
    rankCalls,      \* number of ranker calls made so far
    \* ---- the fixed home layout (part_003:545-614, MainContent.tsx:566-597)
    homeBatches,    \* the batches of the useMemo, in the order getUniqueBatch took them
    \* ---- the narration player (part_004) and its caller (src/CustomDynamicLayout.tsx)
    currentAudio,   \* module variable currentAudio: 0 for null, else the call that made the Audio
    audioPlaying,   \* the calls whose Audio element is playing
    narrationPc,    \* per call of playNarrative: where it is suspended
    retryCount,     \* per call: the retryCount of its innermost invocation
    isNarrating,    \* the value the listeners were last notified with
    callsBeforeStop,\* the calls made before the caller's latest stopCurrentNarrative()
    \* ---- the players and the toast of the App (part_005:54-64)
    selectedShort,  \* useState selectedShort: 0 for null, else the id of its video
    selectedLong,   \* useState selectedLong: 0 for null, else the id of its video
    toast,          \* useState toast: "" for null, else the message shown
    toastTimers,    \* number of pending timers of showToast
    \* ---- the section allocator (src/src/CustomDynamicLayout.tsx:16-69)
    videos,         \* prop videos: the ranked list handed to the layout
    sections,       \* prop sections: the layout, a sequence of section types
    distribution,   \* distributedContent: the batch of each section, by position
    passes,         \* number of allocation passes computed so far
    \* ---- one InteractiveMarquee (part_003:410-448, MainContent.tsx:386-442)
    marqueeVideos,  \* prop videos: the source list
    direction,      \* prop direction
    marqueeDisplay, \* useMemo displayVideos: the replicated list that is rendered
    clientWidth,    \* width of the scroll container, in units of 0.8 px
    scrollLeft,     \* containerRef.current.scrollLeft, in units of 0.8 px
    isDragging,     \* useState isDragging
    internalSpeed,  \* useState internalSpeed, in units of 0.8 px per frame
    resetPending,   \* the 150 ms timer of the [videos] effect is pending
    startX,         \* useState startX, in units of 0.8 px
    scrollLeftState, \* useState scrollLeftState, in units of 0.8 px
    velX,           \* velX.current: "neg", "slow" (|velX| <= 0.1) or "pos"
    lastX,          \* lastX.current
    resumeTimers,   \* number of pending timers that handleEnd has set
    resumeLive,     \* the timer resumeTimeout.current names is pending
    \* ---- the prefetch cache (smartCache.ts)
    online,         \* navigator.onLine
    cacheStore,     \* keys of the Cache Storage cache, in the order of cache.keys()
    warmInput,      \* the list a caller passes to initSmartBuffering
    calls,          \* the calls of initSmartBuffering made so far, one record each
    cleanupPc,      \* cleanUpOldCache: "idle", "keys" (awaiting cache.keys), "delete", "done"
    cleanupKeys,    \* cleanUpOldCache: keys
    cleanupIndex,   \* cleanUpOldCache: i, counted from 1
    \* ---- App (part_005)
    mounted,        \* the mount effects have run
    displayed,      \* useState displayVideos
    isRefreshing,   \* useState isRefreshing
    refreshOrder,   \* newOrder of the handleManualRefresh that is suspended at its await
    refreshAwait    \* index in calls of the call that handleManualRefresh awaits, or 0

rankVars == <<rawVideos, interactions, userInterests, ranked, prevRanked, rankCalls>>
allocVars == <<videos, sections, distribution, passes>>
homeVars == <<homeBatches>>
playerVars == <<selectedShort, selectedLong, toast, toastTimers>>
narrationVars == <<currentAudio, audioPlaying, narrationPc, retryCount, isNarrating,
                   callsBeforeStop>>
dragVars == <<startX, scrollLeftState, velX, lastX, resumeTimers, resumeLive>>
marqueeVars == <<dragVars, marqueeVideos, direction, marqueeDisplay, clientWidth, scrollLeft,
                 isDragging, internalSpeed, resetPending>>
cacheVars == <<online, cacheStore, warmInput, calls>>
cleanupVars == <<cleanupPc, cleanupKeys, cleanupIndex>>
appVars == <<mounted, displayed, isRefreshing, refreshOrder, refreshAwait>>
vars == <<build, rankVars, allocVars, homeVars, playerVars, narrationVars, marqueeVars,
          cacheVars, cleanupVars, appVars>>

----------------------------------------------------------------------------
(* Bounds *)
MaxPool == 3        \* longest pool, and the number of distinct video ids
MaxMarks == 2       \* most entries of likedIds, dislikedIds and watchHistory together
MaxAllocPool == 3   \* longest list handed to the allocator with any layout
MaxSections == 2    \* longest layout
MaxExtra == 1       \* a slider-filling list has SliderCount..SliderCount+MaxExtra videos
MaxSource == 5      \* longest source list of a marquee
MaxList == 5        \* longest list passed to one call of initSmartBuffering
MaxFound == 50      \* most entries the cache holds when a session of the App starts
MaxAppPool == 1     \* most videos the App knows at a time
MaxCalls == 2       \* most calls of initSmartBuffering the App makes in a session
MaxDragRoom == 30   \* scrollable range of the dragged marquee, in units of 0.8 px
MaxTimers == 2      \* most release timers of a marquee pending at a time
MaxPasses == 3      \* most evaluations of distributedContent on one input
MaxOutcomes == 6    \* most mappings an input re-evaluated may have (random recycling)
MaxStore == 52      \* most entries the maintenance pass finds in the store
MaxHomeShorts == 43 \* most Shorts in a list laid out by the home page
MaxHomeLongs == 39  \* most Long Videos in a list laid out by the home page
MaxNarrations == 2  \* most calls of playNarrative the caller makes
MaxToasts == 1      \* most timers of showToast pending at a time

----------------------------------------------------------------------------
(* Generic helpers *)

Range(s) == {s[i] : i \in 1..Len(s)}

Min(a, b) == IF a < b THEN a ELSE b
Max(a, b) == IF a > b THEN a ELSE b

\* Array.prototype.slice(0, n)
Slice(s, n) == SubSeq(s, 1, Min(n, Len(s)))

\* All orders of a list of distinct elements
Perms(s) ==
    {p \in [1..Len(s) -> Range(s)] : \A x \in Range(s) : \E i \in 1..Len(s) : p[i] = x}

Ids(s) == {s[i].id : i \in 1..Len(s)}

----------------------------------------------------------------------------
(* Videos *)

Builds == {"src", "root"}
VideoIds == 1..MaxPool
Categories == {"horror", "comedy"}

\* A Video document: the fields the engine reads.
Video(i, type) ==
    [id |-> i,
     category |-> IF (i \div 2) % 2 = 0 THEN "horror" ELSE "comedy",
     is_trending |-> (i % 2 = 1),
     video_type |-> type,
     video_url |-> i]

TypeOfId(i) == IF i % 2 = 1 THEN "Shorts" ELSE "Long Video"

\* The elements of a set of numbers, in ascending order
RECURSIVE Ascending(_)
Ascending(S) ==
    IF S = {} THEN <<>>
    ELSE LET m == CHOOSE x \in S : \A y \in S : x <= y
         IN  <<m>> \o Ascending(S \ {m})

\* The pools the ranker is tried on: any videos of the catalogue (the sort
\* by random scores does not depend on the order the pool comes in)
Pools ==
    {[i \in 1..Len(Ascending(S)) |-> Video(Ascending(S)[i], TypeOfId(Ascending(S)[i]))] :
        S \in SUBSET VideoIds}

\* watchHistory progress, in percent of the video (0.1 is 10)
ProgressValues == {10, 11}

\* One entry of the interaction state: a like, a dislike or a watch progress
Marks ==
    [kind : {"liked", "disliked"}, id : VideoIds, progress : {0}]
        \cup [kind : {"watched"}, id : VideoIds, progress : ProgressValues]

\* likedIds and dislikedIds are kept disjoint by handleLikeToggle and
\* handleDislike; onProgress keeps one watchHistory entry per id.
ValidMarks(M) ==
    /\ Cardinality(M) <= MaxMarks
    /\ \A x, y \in M :
           /\ (x.kind = "liked" /\ y.kind = "disliked") => x.id # y.id
           /\ (x.kind = "watched" /\ y.kind = "watched" /\ x.id = y.id) => x = y

\* The interaction states the ranker is tried on
InteractionStates ==
    {[likedIds |-> Ascending({x.id : x \in {y \in M : y.kind = "liked"}}),
      dislikedIds |-> Ascending({x.id : x \in {y \in M : y.kind = "disliked"}}),
      watchHistory |->
        LET W == {y \in M : y.kind = "watched"}
            ids == Ascending({x.id : x \in W})
        IN  [i \in 1..Len(ids) |->
                [id |-> ids[i],
                 progress |-> (CHOOSE x \in W : x.id = ids[i]).progress]]] :
        M \in {N \in SUBSET Marks : ValidMarks(N)}}

InterestLists == {<<>>, <<"horror">>, <<"comedy">>}

----------------------------------------------------------------------------
(* The recommendation ranker: applySmartRecommendations *)

\* Mutant of SeenIds: the threshold taken inclusively (progress >= 0.1)
SeenIdsInclusive(ui) ==
    Range(ui.likedIds) \cup Range(ui.dislikedIds)
        \cup {w.id : w \in {x \in Range(ui.watchHistory) : x.progress >= 10}}

\* new Set([...likedIds, ...dislikedIds, ...watchHistory.filter(progress > 0.1).map(id)])
SeenIds(ui) ==
    Range(ui.likedIds) \cup Range(ui.dislikedIds)
        \cup {w.id : w \in {x \in Range(ui.watchHistory) : x.progress > 10}}

UnseenVideos(vs, ui) == SelectSeq(vs, LAMBDA v : v.id \notin SeenIds(ui))
\* Mutant of SeenVideos: only the liked videos are kept as seen
SeenVideosLiked(vs, ui) == SelectSeq(vs, LAMBDA v : v.id \in Range(ui.likedIds))

SeenVideos(vs, ui) == SelectSeq(vs, LAMBDA v : v.id \in SeenIds(ui))

\* The fixed part of scoreVideo: +20 for a top-interest category, +5 for trending
InterestBonus == 20
TrendingBonus == 5
Bonus(v, interests) ==
    (IF v.category \in Range(interests) THEN InterestBonus ELSE 0)
        + (IF v.is_trending THEN TrendingBonus ELSE 0)

\* The random part of scoreVideo is Math.random() * RandomSpan(b), a real in
\* [0, RandomSpan): 5 in part_005, 10 in MainContent.tsx.
RandomSpan(b) == IF b = "src" THEN 5 ELSE 10

\* scoreVideo draws anew at every comparison.  The comparator
\* (a, b) => scoreVideo(b) - scoreVideo(a) can leave a before b iff some
\* draws give score(a) >= score(b), i.e. iff sup score(a) > inf score(b).
CanPrecede(b, x, y, interests) ==
    Bonus(x, interests) + RandomSpan(b) > Bonus(y, interests)

\* list.sort((a, b) => scoreVideo(b) - scoreVideo(a)): every order in which
\* no pair contradicts a comparison whose sign the draws cannot change.
SortByScore(b, list, interests) ==
    {p \in Perms(list) :
        \A i, j \in 1..Len(p) : i < j => CanPrecede(b, p[i], p[j], interests)}

\* part_005:82  unseenVideos.sort(() => Math.random() - 0.5): any order.
\* MainContent.tsx has no such line.
ShuffleUnseen(b, list) == IF b = "src" THEN Perms(list) ELSE {list}

\* [...sortedUnseen, ...sortedSeen]
Combine(sortedUnseen, sortedSeen) == sortedUnseen \o sortedSeen

\* Mutant of applySmartRecommendations: the whole pool sorted by score, with
\* no split into unseen and seen
RankWithoutSplit(b, vs, ui, interests) ==
    IF Len(vs) = 0 THEN {<<>>}
    ELSE UNION {SortByScore(b, sh, interests) : sh \in ShuffleUnseen(b, vs)}

\* The lists one call can return.
applySmartRecommendations(b, vs, ui, interests) ==
    IF Len(vs) = 0 THEN {<<>>}
    ELSE {Combine(u, s) :
            u \in UNION {SortByScore(b, sh, interests) :
                            sh \in ShuffleUnseen(b, UnseenVideos(vs, ui))},
            s \in SortByScore(b, SeenVideos(vs, ui), interests)}

\* list.sort((a, b) => scoreVideo(b) - scoreVideo(a)) when every
\* Math.random() of scoreVideo returns 0: the comparator is
\* Bonus(b) - Bonus(a) and Array.prototype.sort is stable, so the list comes
\* out by descending bonus with equal bonuses in the order they came in.
SortByBonus(list, interests) ==
    LET tier(t) == SelectSeq(list, LAMBDA v : Bonus(v, interests) = t)
    IN  tier(InterestBonus + TrendingBonus) \o tier(InterestBonus)
            \o tier(TrendingBonus) \o tier(0)

\* The lists one call can return when every draw of scoreVideo is 0.  The
\* shuffle of part_005:82 has a comparator of its own and no option turns
\* it off.
applySmartRecommendationsTied(b, vs, ui, interests) ==
    IF Len(vs) = 0 THEN {<<>>}
    ELSE {Combine(SortByBonus(sh, interests), SortByBonus(SeenVideos(vs, ui), interests)) :
            sh \in ShuffleUnseen(b, UnseenVideos(vs, ui))}

----------------------------------------------------------------------------
(* The section allocator: distributedContent and its helper pickVideos *)

VideoTypes == {"Shorts", "Long Video"}
SectionTypes == {"long_video", "shorts_grid", "long_slider", "slider_left", "slider_right"}

\* the counts the forEach passes to pickVideos
LongCount == 1
GridCount == 4
SliderCount == 10

shortsOnly(vs) == SelectSeq(vs, LAMBDA v : v.video_type = "Shorts")
longsOnly(vs) == SelectSeq(vs, LAMBDA v : v.video_type = "Long Video")

\* the pool and the count of the pickVideos call made for a section type
SectionPool(vs, type) ==
    CASE type = "long_video" -> longsOnly(vs)
      [] type = "shorts_grid" -> shortsOnly(vs)
      [] type = "long_slider" -> longsOnly(vs)
      [] type \in {"slider_left", "slider_right"} -> vs

SectionCount(type) ==
    CASE type = "long_video" -> LongCount
      [] type = "shorts_grid" -> GridCount
      [] type = "long_slider" -> SliderCount
      [] type \in {"slider_left", "slider_right"} -> SliderCount

\* Mutant of Available: the used ids are not filtered out
AvailableIgnoresUsed(pool, usedIds) == pool

\* pool.filter(v => !usedIds.has(v.id))
Available(pool, usedIds) == SelectSeq(pool, LAMBDA v : v.id \notin usedIds)

\* available.slice(0, count), the picks that pickVideos marks as used
UniquePicks(pool, count, usedIds) ==
    IF Len(pool) = 0 THEN <<>> ELSE Slice(Available(pool, usedIds), count)

\* Mutant of UsedAfterPick: the picks are not added to usedIds
UsedAfterPickForgets(pool, count, usedIds) == usedIds

\* selected.forEach(v => usedIds.add(v.id))
UsedAfterPick(pool, count, usedIds) == usedIds \cup Ids(UniquePicks(pool, count, usedIds))

\* Mutant of RecycleCandidates: the picks just selected are not filtered out
RecycleCandidatesAll(pool, selected) == pool

\* pool.filter(v => !selected.includes(v))
RecycleCandidates(pool, selected) == SelectSeq(pool, LAMBDA v : v \notin Range(selected))

\* Mutant of OrderedPicks: the fill draws an element for each free place
\* independently, so an element can be drawn again
OrderedPicksRepeating(list, needed) == [1..Min(needed, Len(list)) -> Range(list)]

\* list.sort(() => 0.5 - Math.random()).slice(0, needed): any `needed`
\* elements of the list in any order, all of them when there are fewer
OrderedPicks(list, needed) ==
    LET k == Min(needed, Len(list))
    IN  {s \in [1..k -> Range(list)] : \A i, j \in 1..k : i # j => s[i] # s[j]}

\* Mutant of pickVideos: no recycling
pickVideosNoRecycle(pool, count, usedIds) == {UniquePicks(pool, count, usedIds)}

\* The batches one call pickVideos(pool, count) can return when the used-id
\* set holds usedIds.
pickVideos(pool, count, usedIds) ==
    IF Len(pool) = 0 THEN {<<>>}
    ELSE LET selected == UniquePicks(pool, count, usedIds)
         IN  IF Len(selected) < count
             THEN {selected \o recycled :
                     recycled \in OrderedPicks(RecycleCandidates(pool, selected),
                                               count - Len(selected))}
             ELSE {selected}

\* Mutant of UsedBefore: usedIds is created once outside the useMemo, so an
\* evaluation starts with the ids the evaluation before it has used
RECURSIVE UsedBeforeShared(_, _, _)
UsedBeforeShared(vs, secs, k) ==
    IF k <= 1 THEN UNION {Ids(distribution[i]) : i \in 1..Len(distribution)}
    ELSE UsedAfterPick(SectionPool(vs, secs[k - 1]), SectionCount(secs[k - 1]),
                       UsedBeforeShared(vs, secs, k - 1))

\* usedIds when the forEach reaches section k (1-based): the set is created
\* empty inside the useMemo callback, at every evaluation
RECURSIVE UsedBefore(_, _, _)
UsedBefore(vs, secs, k) ==
    IF k <= 1 THEN {}
    ELSE UsedAfterPick(SectionPool(vs, secs[k - 1]), SectionCount(secs[k - 1]),
                       UsedBefore(vs, secs, k - 1))

\* The mappings one evaluation of distributedContent can return, as the
\* sequence of the sections' batches: the first k sections served.
RECURSIVE Distributions(_, _, _)
Distributions(vs, secs, k) ==
    IF k = 0 THEN {<<>>}
    ELSE {Append(d, batch) :
            d \in Distributions(vs, secs, k - 1),
            batch \in pickVideos(SectionPool(vs, secs[k]), SectionCount(secs[k]),
                                 UsedBefore(vs, secs, k))}

\* Mutant of distributedContent: a section whose pool is empty aborts the
\* evaluation, no section is served
distributedContentAborts(vs, secs) ==
    IF \E k \in 1..Len(secs) : Len(SectionPool(vs, secs[k])) = 0
    THEN {<<>>}
    ELSE Distributions(vs, secs, Len(secs))

distributedContent(vs, secs) == Distributions(vs, secs, Len(secs))

----------------------------------------------------------------------------
(* The fixed home layout of MainContent: getUniqueBatch *)

\* Mutant of getUniqueBatch: the used ids are not filtered out
getUniqueBatchAny(source, count, usedIds) == Slice(source, count)

\* source.filter(v => !usedIds.has(v.id)).slice(0, count)
getUniqueBatch(source, count, usedIds) == Slice(Available(source, usedIds), count)

\* The calls of getUniqueBatch in the order the useMemo makes them: the
\* video_type of the source (shortsOnly or longsOnly) and the count.
\* part_003:578-604 makes 13 calls, MainContent.tsx:577-585 makes 9.
HomePlan(b) ==
    LET S(n) == [type |-> "Shorts", count |-> n]
        L(n) == [type |-> "Long Video", count |-> n]
    IN  IF b = "src"
        THEN <<S(10), L(10), S(4), S(2), S(2), L(4), S(10), L(10), S(2), S(2), L(4),
               S(10), L(10)>>
        ELSE <<S(12), L(8), S(4), L(2), S(12), L(8), S(4), S(12), L(8)>>

\* shortsOnly / longsOnly
HomeSource(vs, type) == SelectSeq(vs, LAMBDA v : v.video_type = type)

\* the batches of the first k calls
RECURSIVE HomeBatches(_, _, _)
HomeBatches(b, vs, k) ==
    IF k = 0 THEN <<>>
    ELSE LET before == HomeBatches(b, vs, k - 1)
             usedIds == UNION {Ids(before[j]) : j \in 1..(k - 1)}
         IN  Append(before,
                    getUniqueBatch(HomeSource(vs, HomePlan(b)[k].type),
                                   HomePlan(b)[k].count, usedIds))

\* One evaluation of the useMemo of the home page on the list it is given
LayoutHome ==
    /\ homeBatches = <<>>
    /\ homeBatches' = HomeBatches(build, videos, Len(HomePlan(build)))
    /\ UNCHANGED <<build, playerVars, narrationVars, rankVars, allocVars, marqueeVars, cacheVars, cleanupVars,
                   appVars>>

----------------------------------------------------------------------------
(* The narration player (part_004): playNarrative, stopCurrentNarrative    *)
(*                                                                         *)
(* A call of playNarrative is a number 1..MaxNarrations; the Audio element *)
(* a call creates bears the number of the call.  narrationPc is            *)
(*   "idle"    the call has not been made                                  *)
(*   "key"     suspended at await getActiveKeyData()                       *)
(*   "speech"  suspended at await fetch(...)                               *)
(*   "rotate"  suspended at await switchToNextKey(...)                     *)
(*   "blob"    suspended at await response.blob()                          *)
(*   "done"    the call has returned                                       *)

\* if (retryCount > 2): the greatest retryCount that still asks for speech
MaxRetry == 2

\* currentAudio.pause() of stopCurrentNarrative: the elements playing after it
StoppedAudio(current, playing) == IF current # 0 THEN playing \ {current} ELSE playing

\* stopCurrentNarrative(): if (currentAudio) { pause; currentTime = 0;
\* currentAudio = null; notifyListeners(false) }
stopCurrentNarrative ==
    /\ audioPlaying' = StoppedAudio(currentAudio, audioPlaying)
    /\ currentAudio' = 0
    /\ isNarrating' = IF currentAudio # 0 THEN FALSE ELSE isNarrating

\* The synchronous head of playNarrative(text, retry) of call c, up to the
\* first await: offline and too many retries return, then the current
\* narration is stopped, an empty text returns and the key lookup is awaited.
playNarrativeHead(c, retry, hasText) ==
    IF ~online
    THEN /\ narrationPc' = [narrationPc EXCEPT ![c] = "done"]
         /\ retryCount' = [retryCount EXCEPT ![c] = retry]
         /\ UNCHANGED <<currentAudio, audioPlaying, isNarrating>>
    ELSE IF retry > MaxRetry
    THEN /\ narrationPc' = [narrationPc EXCEPT ![c] = "done"]
         /\ retryCount' = [retryCount EXCEPT ![c] = retry]
         /\ isNarrating' = FALSE
         /\ UNCHANGED <<currentAudio, audioPlaying>>
    ELSE /\ stopCurrentNarrative
         /\ narrationPc' = [narrationPc EXCEPT ![c] = IF hasText THEN "key" ELSE "done"]
         /\ retryCount' = [retryCount EXCEPT ![c] = retry]

\* The caller calls playNarrative(text): the timer of the overlay's effect fires
playNarrative(c) ==
    /\ narrationPc[c] = "idle"
    /\ \E hasText \in BOOLEAN : playNarrativeHead(c, 0, hasText)
    /\ UNCHANGED callsBeforeStop
    /\ UNCHANGED <<build, playerVars, rankVars, allocVars, homeVars, marqueeVars, cacheVars,
                   cleanupVars, appVars>>

\* await getActiveKeyData() settles: with a key the speech request is sent,
\* without one the call notifies the listeners and returns
KeyLookupSettles(c) ==
    /\ narrationPc[c] = "key"
    /\ \E hasKey \in BOOLEAN :
          IF hasKey
          THEN /\ narrationPc' = [narrationPc EXCEPT ![c] = "speech"]
               /\ UNCHANGED isNarrating
          ELSE /\ narrationPc' = [narrationPc EXCEPT ![c] = "done"]
               /\ isNarrating' = FALSE
    /\ UNCHANGED <<currentAudio, audioPlaying, retryCount, callsBeforeStop>>
    /\ UNCHANGED <<build, playerVars, rankVars, allocVars, homeVars, marqueeVars, cacheVars,
                   cleanupVars, appVars>>

\* await fetch(...) settles: "ok" reads the body, "rotate" (401, 429, 402)
\* switches the key, "error" (another status, or the request rejected) goes
\* to the catch block
SpeechSettles(c) ==
    /\ narrationPc[c] = "speech"
    /\ \E outcome \in {"ok", "rotate", "error"} :
          /\ narrationPc' = [narrationPc EXCEPT ![c] =
                CASE outcome = "ok" -> "blob"
                  [] outcome = "rotate" -> "rotate"
                  [] OTHER -> "done"]
          /\ isNarrating' = IF outcome = "error" THEN FALSE ELSE isNarrating
    /\ UNCHANGED <<currentAudio, audioPlaying, retryCount, callsBeforeStop>>
    /\ UNCHANGED <<build, playerVars, rankVars, allocVars, homeVars, marqueeVars, cacheVars,
                   cleanupVars, appVars>>

\* await switchToNextKey(...) settles and playNarrative(text, retryCount + 1)
\* runs up to its first await
RotateSettles(c) ==
    /\ narrationPc[c] = "rotate"
    /\ playNarrativeHead(c, retryCount[c] + 1, TRUE)
    /\ UNCHANGED callsBeforeStop
    /\ UNCHANGED <<build, playerVars, rankVars, allocVars, homeVars, marqueeVars, cacheVars,
                   cleanupVars, appVars>>

\* await response.blob() settles: currentAudio = new Audio(url), the
\* handlers are set and play() is called; play() starts the element or is
\* rejected.  A body that cannot be read goes to the catch block.
BlobSettles(c) ==
    /\ narrationPc[c] = "blob"
    /\ \E outcome \in {"plays", "rejected", "error"} :
          /\ currentAudio' = IF outcome = "error" THEN currentAudio ELSE c
          /\ audioPlaying' = IF outcome = "plays" THEN audioPlaying \cup {c}
                                                  ELSE audioPlaying
          /\ isNarrating' = (outcome = "plays")
    /\ narrationPc' = [narrationPc EXCEPT ![c] = "done"]
    /\ UNCHANGED <<retryCount, callsBeforeStop>>
    /\ UNCHANGED <<build, playerVars, rankVars, allocVars, homeVars, marqueeVars, cacheVars,
                   cleanupVars, appVars>>

\* onended of the element of call c: notifyListeners(false); currentAudio = null
AudioEnded(c) ==
    /\ c \in audioPlaying
    /\ audioPlaying' = audioPlaying \ {c}
    /\ currentAudio' = 0
    /\ isNarrating' = FALSE
    /\ UNCHANGED <<narrationPc, retryCount, callsBeforeStop>>
    /\ UNCHANGED <<build, playerVars, rankVars, allocVars, homeVars, marqueeVars, cacheVars,
                   cleanupVars, appVars>>

\* The caller calls stopCurrentNarrative(): the overlay's effect and its cleanup
StopNarrative ==
    /\ stopCurrentNarrative
    /\ callsBeforeStop' = {c \in 1..MaxNarrations : narrationPc[c] # "idle"}
    /\ UNCHANGED <<narrationPc, retryCount>>
    /\ UNCHANGED <<build, playerVars, rankVars, allocVars, homeVars, marqueeVars, cacheVars,
                   cleanupVars, appVars>>

----------------------------------------------------------------------------
(* The interaction handlers of the App (part_005:184-233, 320-331; the same *)
(* code is in MainContent.tsx:1122-1184, 1282-1288)                         *)

\* list.filter(x => x !== id)
Without(list, id) == SelectSeq(list, LAMBDA x : x # id)

\* Array.from(new Set([...list, id])): the first occurrences, in order
RECURSIVE Deduplicated(_)
Deduplicated(list) ==
    IF Len(list) = 0 THEN <<>>
    ELSE LET front == SubSeq(list, 1, Len(list) - 1)
             last == list[Len(list)]
         IN  IF last \in Range(front) THEN Deduplicated(front)
             ELSE Append(Deduplicated(front), last)

\* the updater of handleLikeToggle
LikeToggleUpdate(p, id) ==
    IF id \in Range(p.likedIds)
    THEN [p EXCEPT !.likedIds = Without(p.likedIds, id)]
    ELSE [p EXCEPT !.likedIds = Append(p.likedIds, id),
                   !.dislikedIds = Without(p.dislikedIds, id)]

\* Mutant of DislikeUpdate: the id is left in likedIds
DislikeUpdateKeepsLike(p, id) ==
    [p EXCEPT !.dislikedIds = Deduplicated(Append(p.dislikedIds, id))]

\* the updater of handleDislike
DislikeUpdate(p, id) ==
    [p EXCEPT !.dislikedIds = Deduplicated(Append(p.dislikedIds, id)),
              !.likedIds = Without(p.likedIds, id)]

\* the updater of onRestore
RestoreUpdate(p, id) == [p EXCEPT !.dislikedIds = Without(p.dislikedIds, id)]

\* SmartBrain.saveInterest(interest): localInterests gets the category once
saveInterest(interests, interest) ==
    IF interest \in Range(interests) THEN interests ELSE Append(interests, interest)

\* showToast(msg): setToast(msg); setTimeout(() => setToast(null), 3000)
showToast(msg) ==
    /\ toastTimers < MaxToasts
    /\ toast' = msg
    /\ toastTimers' = toastTimers + 1

\* a timer of showToast fires: setToast(null)
ToastExpires ==
    /\ toastTimers > 0
    /\ toast' = ""
    /\ toastTimers' = toastTimers - 1
    /\ UNCHANGED <<build, rankVars, allocVars, homeVars, selectedShort, selectedLong,
                   narrationVars, marqueeVars, cacheVars, cleanupVars, appVars>>

\* The like button of the home page and of the players
handleLikeToggle ==
    /\ \E id \in VideoIds : interactions' = LikeToggleUpdate(interactions, id)
    /\ UNCHANGED <<build, rawVideos, userInterests, ranked, prevRanked, rankCalls, allocVars,
                   homeVars, playerVars, narrationVars, marqueeVars, cacheVars, cleanupVars,
                   appVars>>

\* The dislike button of a player: the Shorts player passes the id of the
\* video it shows, the long player selectedLong.video.id.  Both players
\* are closed.
handleDislike ==
    /\ \E id \in VideoIds :
          /\ \/ selectedShort # 0 /\ TypeOfId(id) = "Shorts"
             \/ selectedLong = id
          /\ interactions' = DislikeUpdate(interactions, id)
    /\ showToast("excluded")
    /\ selectedShort' = 0
    /\ selectedLong' = 0
    /\ UNCHANGED <<build, rawVideos, userInterests, ranked, prevRanked, rankCalls, allocVars,
                   homeVars, narrationVars, marqueeVars, cacheVars, cleanupVars, appVars>>

\* The restore button of the page of hidden videos
onRestore ==
    /\ \E id \in VideoIds : interactions' = RestoreUpdate(interactions, id)
    /\ showToast("restored")
    /\ UNCHANGED <<build, rawVideos, userInterests, ranked, prevRanked, rankCalls, allocVars,
                   homeVars, selectedShort, selectedLong, narrationVars, marqueeVars,
                   cacheVars, cleanupVars, appVars>>

\* playShortVideo(v, list): a Shorts video of the pool is opened
playShortVideo ==
    /\ \E i \in 1..Len(rawVideos) :
          /\ rawVideos[i].video_type = "Shorts"
          /\ userInterests' = saveInterest(userInterests, rawVideos[i].category)
          /\ selectedShort' = rawVideos[i].id
    /\ UNCHANGED <<build, rawVideos, interactions, ranked, prevRanked, rankCalls, allocVars,
                   homeVars, selectedLong, toast, toastTimers, narrationVars, marqueeVars,
                   cacheVars, cleanupVars, appVars>>

\* playLongVideo(v): a Long Video of the pool is opened
playLongVideo ==
    /\ \E i \in 1..Len(rawVideos) :
          /\ rawVideos[i].video_type = "Long Video"
          /\ userInterests' = saveInterest(userInterests, rawVideos[i].category)
          /\ selectedLong' = rawVideos[i].id
    /\ UNCHANGED <<build, rawVideos, interactions, ranked, prevRanked, rankCalls, allocVars,
                   homeVars, selectedShort, toast, toastTimers, narrationVars, marqueeVars,
                   cacheVars, cleanupVars, appVars>>

\* onClose of a player: setSelectedShort(null) / setSelectedLong(null)
onClose ==
    /\ selectedShort # 0 \/ selectedLong # 0
    /\ \/ selectedShort # 0 /\ selectedShort' = 0 /\ UNCHANGED selectedLong
       \/ selectedLong # 0 /\ selectedLong' = 0 /\ UNCHANGED selectedShort
    /\ UNCHANGED <<build, rankVars, allocVars, homeVars, toast, toastTimers, narrationVars,
                   marqueeVars, cacheVars, cleanupVars, appVars>>

----------------------------------------------------------------------------
(* The marquee carousel: InteractiveMarquee *)

\* Lengths are in units of 0.8 px, the distance of one autoplay frame.
\* The shorts marquee (isShorts) renders items of class w-24 (96 px) in a
\* flex row with gap-3 (12 px) and px-6 (24 px on either side).
DEFAULT_SPEED == 1
ItemWidth == 120
Gap == 15
PadX == 30

Directions == {"left-to-right", "right-to-left"}

\* direction === 'left-to-right' ? -0.8 : 0.8
initialSpeed(dir) == IF dir = "left-to-right" THEN -DEFAULT_SPEED ELSE DEFAULT_SPEED

RECURSIVE Repeat(_, _)
Repeat(list, times) == IF times = 0 THEN <<>> ELSE list \o Repeat(list, times - 1)

\* copies of a source list shorter than 5: [...videos] five times in
\* part_003:428, four times in MainContent.tsx:409
SmallListCopies(b) == IF b = "src" THEN 5 ELSE 4

\* useMemo displayVideos
displayVideos(b, vs) ==
    IF Len(vs) = 0 THEN <<>>
    ELSE IF Len(vs) < 5 THEN Repeat(vs, SmallListCopies(b))
    ELSE Repeat(vs, 3)

\* width of the rendered row: the paddings, the items and the gaps
ContentWidth(n) == IF n = 0 THEN 0 ELSE 2 * PadX + n * ItemWidth + (n - 1) * Gap

\* container.scrollWidth: the row, or the container when the row is narrower
ScrollWidth(display, cw) == Max(ContentWidth(Len(display)), cw)

\* an assignment to container.scrollLeft is clamped to the scrollable range
SetScroll(x, display, cw) == Max(0, Min(x, ScrollWidth(display, cw) - cw))

\* scrollLeft after the wrap test of animate, from the advanced offset x.
\* part_003:436-440 tests x <= 10 px (12.5 units); MainContent.tsx:417-424
\* tests x <= 1 px (1.25 units) and has a third test at 2.5 thirds.
AfterWrap(b, x, speed, display, cw) ==
    LET sw == ScrollWidth(display, cw)
        third == sw \div 3
    IN  IF sw <= 0 THEN x
        ELSE IF b = "src"
             THEN IF speed > 0 /\ x >= third * 2 THEN SetScroll(x - third, display, cw)
                  ELSE IF speed < 0 /\ x <= 12 THEN SetScroll(x + third, display, cw)
                  ELSE x
             ELSE IF speed > 0
                  THEN IF x >= third * 2 THEN SetScroll(x - third, display, cw) ELSE x
                  ELSE IF x <= 1 THEN SetScroll(x + third, display, cw)
                       ELSE IF 2 * x >= 5 * third THEN SetScroll(x - third, display, cw)
                       ELSE x

\* The source lists a marquee is given: two different lists of every length
SourceLists == {[i \in 1..n |-> g + i] : n \in 0..MaxSource, g \in {0, 100}}

\* container widths: a 360 px phone and a 1200 px desktop window
ClientWidths == {450, 1500}

\* One animation frame: animate
Animate ==
    /\ marqueeDisplay # <<>>
    /\ IF ~isDragging
       THEN scrollLeft' =
              AfterWrap(build,
                        SetScroll(scrollLeft + internalSpeed, marqueeDisplay, clientWidth),
                        internalSpeed, marqueeDisplay, clientWidth)
       ELSE scrollLeft' = scrollLeft
    /\ UNCHANGED <<build, playerVars, narrationVars, homeVars, rankVars, allocVars, cacheVars, cleanupVars, appVars, dragVars,
                   marqueeVideos, direction, marqueeDisplay, clientWidth, isDragging,
                   internalSpeed, resetPending>>

\* The timer of the [videos] effect fires (MainContent.tsx:437-439):
\* scrollLeft = scrollWidth / 3
ResetToThird ==
    /\ resetPending
    /\ resetPending' = FALSE
    /\ scrollLeft' =
          IF marqueeDisplay = <<>> THEN scrollLeft
          ELSE SetScroll(ScrollWidth(marqueeDisplay, clientWidth) \div 3,
                         marqueeDisplay, clientWidth)
    /\ UNCHANGED <<build, playerVars, narrationVars, homeVars, rankVars, allocVars, cacheVars, cleanupVars, appVars, dragVars,
                   marqueeVideos, direction, marqueeDisplay, clientWidth, isDragging,
                   internalSpeed>>

\* The parent renders the marquee with another list: displayVideos is
\* recomputed, the browser keeps scrollLeft within the new range (a container
\* that was not rendered starts at 0), and in MainContent.tsx the [videos]
\* effect clears its timer and starts a new one when the list is not empty.
SourceChange ==
    /\ \E vs \in SourceLists \ {marqueeVideos} :
          /\ marqueeVideos' = vs
          /\ marqueeDisplay' = displayVideos(build, vs)
          /\ scrollLeft' =
                IF marqueeDisplay = <<>> \/ vs = <<>> THEN 0
                ELSE SetScroll(scrollLeft, displayVideos(build, vs), clientWidth)
          /\ resetPending' = (build = "root" /\ Len(vs) > 0)
    /\ UNCHANGED <<build, playerVars, narrationVars, homeVars, rankVars, allocVars, cacheVars, cleanupVars, appVars, dragVars,
                   direction, clientWidth, isDragging, internalSpeed>>

----------------------------------------------------------------------------
(* Dragging the marquee (MainContent.tsx:444-503; the marquee of part_003  *)
(* has no pointer handlers)                                                *)

\* pageX of the pointer events, in units of 0.8 px; the container's
\* offsetLeft is 0
PointerXs == {0, 10, 20}

\* velX.current is kept as the side of the test Math.abs(velX.current) > 0.1
Velocities == {"neg", "slow", "pos"}

\* velX.current after handleMove: (clientX - lastX.current) / dt when dt > 0,
\* unchanged when dt = 0
VelocityAfterMove(old, clientX, last) ==
    {old} \cup (IF clientX = last THEN {"slow"}
                ELSE IF clientX > last THEN {"slow", "pos"}
                ELSE {"slow", "neg"})

\* the callback of the release timer, with one branch that never resumes
ResumeSpeedSlowStays(vel, dir) ==
    IF vel # "slow" THEN initialSpeed(dir) ELSE 0

\* the callback of the release timer: both branches set the same speed
ResumeSpeed(vel, dir) ==
    IF vel # "slow" THEN initialSpeed(dir) ELSE initialSpeed(dir)

\* onMouseDown, onTouchStart
handleStart ==
    /\ marqueeDisplay # <<>>
    /\ \E clientX \in PointerXs :
          /\ startX' = clientX
          /\ lastX' = clientX
    /\ resumeTimers' = IF resumeLive THEN resumeTimers - 1 ELSE resumeTimers
    /\ resumeLive' = FALSE
    /\ isDragging' = TRUE
    /\ internalSpeed' = 0
    /\ scrollLeftState' = scrollLeft
    /\ UNCHANGED <<build, playerVars, narrationVars, homeVars, rankVars, allocVars, cacheVars, cleanupVars, appVars, velX,
                   marqueeVideos, direction, marqueeDisplay, clientWidth, scrollLeft,
                   resetPending>>

\* onMouseMove, onTouchMove while isDragging
handleMove ==
    /\ marqueeDisplay # <<>>
    /\ isDragging
    /\ \E clientX \in PointerXs :
          /\ scrollLeft' = SetScroll(scrollLeftState - ((clientX - startX) * 3) \div 2,
                                     marqueeDisplay, clientWidth)
          /\ velX' \in VelocityAfterMove(velX, clientX, lastX)
          /\ lastX' = clientX
    /\ UNCHANGED <<build, playerVars, narrationVars, homeVars, rankVars, allocVars, cacheVars, cleanupVars, appVars, startX,
                   scrollLeftState, resumeTimers, resumeLive, marqueeVideos, direction,
                   marqueeDisplay, clientWidth, isDragging, internalSpeed, resetPending>>

\* onMouseUp, onTouchEnd, and onMouseLeave while isDragging: the timer that
\* resumeTimeout.current named is not cleared
handleEnd ==
    /\ marqueeDisplay # <<>>
    /\ resumeTimers < MaxTimers
    /\ isDragging' = FALSE
    /\ resumeTimers' = resumeTimers + 1
    /\ resumeLive' = TRUE
    /\ UNCHANGED <<build, playerVars, narrationVars, homeVars, rankVars, allocVars, cacheVars, cleanupVars, appVars, startX,
                   scrollLeftState, velX, lastX, marqueeVideos, direction, marqueeDisplay,
                   clientWidth, scrollLeft, internalSpeed, resetPending>>

\* The oldest pending release timer fires after its 1000 ms
ResumeTimerFires ==
    /\ resumeTimers > 0
    /\ resumeTimers' = resumeTimers - 1
    /\ resumeLive' = (resumeLive /\ resumeTimers > 1)
    /\ internalSpeed' = ResumeSpeed(velX, direction)
    /\ UNCHANGED <<build, playerVars, narrationVars, homeVars, rankVars, allocVars, cacheVars, cleanupVars, appVars, startX,
                   scrollLeftState, velX, lastX, marqueeVideos, direction, marqueeDisplay,
                   clientWidth, scrollLeft, isDragging, resetPending>>

----------------------------------------------------------------------------
(* The prefetch cache: initSmartBuffering, preloadVideoChunk                *)
(*                                                                          *)
(* A URL is a number; 0 stands for a video_url that is empty or does not    *)
(* start with 'http'.  A call of initSmartBuffering is a record             *)
(*   urls        the priority queue, videos.slice(0, 5)                     *)
(*   pc          per URL: "wait", "match", "fetch", "put" or "done"         *)
(*   fetched     per URL: the outcome of its fetch, "none" before it        *)
(*   stored      per URL: cache.put fulfilled                               *)
(*   state       of the promise the call returned                           *)
(*   storeAtCall the keys of the cache when the call was made               *)
(* build "src" is src/src/smartCache.ts (parallel, cache.match first, puts  *)
(* the response as fetched), build "root" is src/smartCache.ts (one URL     *)
(* after the other, puts new Response(blob), the chain is not awaited).     *)

PriorityCount == 5

\* what the server and the network make of the Range request
FetchOutcomes == {"ok", "partial", "bad_status", "network_error"}

\* response.ok || response.status === 206
FetchSucceeded(outcome) == outcome \in {"ok", "partial"}

\* cache.put(url, response): the entry of the same URL is replaced and the new
\* one is the last of cache.keys()
PutEntry(store, url) == SelectSeq(store, LAMBDA u : u # url) \o <<url>>

\* cache.put rejects a response of status 206 with a TypeError; src/src puts
\* response.clone(), src/smartCache.ts puts new Response(blob) of status 200
PutRejects(b, outcome) == b = "src" /\ outcome = "partial"

AllDone(call) == \A j \in 1..Len(call.urls) : call.pc[j] = "done"

\* bufferNext(index): skips the videos without a usable URL and issues the
\* fetch of the next one
RECURSIVE bufferNext(_, _)
bufferNext(call, index) ==
    IF index > Len(call.urls) THEN call
    ELSE IF call.urls[index] = 0
         THEN bufferNext([call EXCEPT !.pc[index] = "done"], index + 1)
         ELSE [call EXCEPT !.pc[index] = "fetch"]

\* the record of a call initSmartBuffering(list) made when the store is store
initSmartBuffering(b, onl, list, store) ==
    LET queue == IF ~onl \/ Len(list) = 0 THEN <<>> ELSE Slice(list, PriorityCount)
        blank == [urls |-> queue,
                  pc |-> [i \in 1..Len(queue) |-> "wait"],
                  fetched |-> [i \in 1..Len(queue) |-> "none"],
                  stored |-> [i \in 1..Len(queue) |-> FALSE],
                  state |-> "resolved",
                  storeAtCall |-> store]
        parallel == [blank EXCEPT
                       !.pc = [i \in 1..Len(queue) |->
                                 IF queue[i] = 0 THEN "done" ELSE "match"]]
    IN  IF b = "src"
        THEN [parallel EXCEPT !.state = IF AllDone(parallel) THEN "resolved" ELSE "pending"]
        ELSE bufferNext(blank, 1)

\* the task i of a call has finished
FinishTask(b, call, i, outcome, wasStored) ==
    LET done == [call EXCEPT !.pc[i] = "done", !.fetched[i] = outcome,
                             !.stored[i] = wasStored]
    IN  IF b = "src"
        THEN [done EXCEPT !.state = IF AllDone(done) THEN "resolved" ELSE @]
        ELSE bufferNext(done, i + 1)

\* await cache.match(url) settles: a hit ends the task, a miss issues the fetch
MatchStep ==
    /\ \E c \in 1..Len(calls) : \E i \in 1..Len(calls[c].urls) :
          /\ calls[c].pc[i] = "match"
          /\ calls' = [calls EXCEPT ![c] =
                         IF calls[c].urls[i] \in Range(cacheStore)
                         THEN FinishTask(build, calls[c], i, "none", FALSE)
                         ELSE [calls[c] EXCEPT !.pc[i] = "fetch"]]
    /\ UNCHANGED <<build, playerVars, narrationVars, homeVars, rankVars, allocVars, marqueeVars, cleanupVars, appVars,
                   online, cacheStore, warmInput>>

\* await fetch(url, {Range}) settles with one of the outcomes
FetchStep ==
    /\ \E c \in 1..Len(calls) : \E i \in 1..Len(calls[c].urls) :
          /\ calls[c].pc[i] = "fetch"
          /\ \E outcome \in FetchOutcomes :
                calls' = [calls EXCEPT ![c] =
                            IF FetchSucceeded(outcome)
                            THEN [calls[c] EXCEPT !.pc[i] = "put", !.fetched[i] = outcome]
                            ELSE FinishTask(build, calls[c], i, outcome, FALSE)]
    /\ UNCHANGED <<build, playerVars, narrationVars, homeVars, rankVars, allocVars, marqueeVars, cleanupVars, appVars,
                   online, cacheStore, warmInput>>

\* await cache.put(url, ...) settles
PutStep ==
    /\ \E c \in 1..Len(calls) : \E i \in 1..Len(calls[c].urls) :
          /\ calls[c].pc[i] = "put"
          /\ IF PutRejects(build, calls[c].fetched[i])
             THEN /\ cacheStore' = cacheStore
                  /\ calls' = [calls EXCEPT ![c] =
                                 FinishTask(build, calls[c], i, calls[c].fetched[i], FALSE)]
             ELSE /\ cacheStore' = PutEntry(cacheStore, calls[c].urls[i])
                  /\ calls' = [calls EXCEPT ![c] =
                                 FinishTask(build, calls[c], i, calls[c].fetched[i], TRUE)]
    /\ UNCHANGED <<build, playerVars, narrationVars, homeVars, rankVars, allocVars, marqueeVars, cleanupVars, appVars,
                   online, warmInput>>

----------------------------------------------------------------------------
(* The maintenance pass: cleanUpOldCache *)

CacheCeiling == 50
KeepNewest == 20

\* Mutant of DeleteEntry: the newest entry is removed, whatever the key
DeleteEntryNewest(store, url) == SubSeq(store, 1, Len(store) - 1)

\* cache.delete(request)
DeleteEntry(store, url) == SelectSeq(store, LAMBDA u : u # url)

\* await cache.keys() settles; the loop starts when there are more than 50 keys
CleanupKeys ==
    /\ cleanupPc = "keys"
    /\ cleanupKeys' = cacheStore
    /\ IF Len(cacheStore) > CacheCeiling
       THEN cleanupPc' = "delete" /\ cleanupIndex' = 1
       ELSE cleanupPc' = "done" /\ cleanupIndex' = cleanupIndex
    /\ UNCHANGED <<build, playerVars, narrationVars, homeVars, rankVars, allocVars, marqueeVars, cacheVars, appVars>>

\* await cache.delete(keys[i]) settles; for (i = 0; i < keys.length - 20; i++)
CleanupDelete ==
    /\ cleanupPc = "delete"
    /\ cacheStore' = DeleteEntry(cacheStore, cleanupKeys[cleanupIndex])
    /\ cleanupIndex' = cleanupIndex + 1
    /\ cleanupPc' = IF cleanupIndex + 1 > Len(cleanupKeys) - KeepNewest THEN "done"
                    ELSE "delete"
    /\ UNCHANGED <<build, playerVars, narrationVars, homeVars, rankVars, allocVars, marqueeVars, appVars, online, warmInput,
                   calls, cleanupKeys>>

----------------------------------------------------------------------------
(* The App (part_005): the handlers that rank, publish and warm *)

FirstBatch == 3
SecondBatchEnd == 8

\* Array.slice(from, to), from and to counted from 0
SliceFrom(s, from, to) == SubSeq(s, from + 1, Min(to, Len(s)))

\* video.video_url of the videos of a list
Urls(list) == [i \in 1..Len(list) |-> list[i].video_url]

\* calls a handler that starts with the pool vs will make
CallsNeeded(vs) == IF Len(vs) > FirstBatch THEN 2 ELSE 1

\* The mount effect (part_005:127-135): with a list from localStorage it
\* ranks, publishes, warms the first three and starts the maintenance pass
Mount ==
    /\ ~mounted
    /\ mounted' = TRUE
    /\ IF Len(rawVideos) > 0
       THEN \E order \in applySmartRecommendations(build, rawVideos, interactions,
                                                   userInterests) :
              /\ displayed' = order
              /\ calls' = Append(calls,
                     initSmartBuffering(build, online, Urls(Slice(order, FirstBatch)),
                                        cacheStore))
              /\ cleanupPc' = "keys"
       ELSE UNCHANGED <<displayed, calls, cleanupPc>>
    /\ UNCHANGED <<build, playerVars, narrationVars, homeVars, rankVars, allocVars, marqueeVars, online, cacheStore, warmInput,
                   cleanupKeys, cleanupIndex, isRefreshing, refreshOrder, refreshAwait>>

\* The snapshot listener (part_005:147-167).  It was created by an effect
\* without dependencies, so the displayVideos it tests is the empty list of
\* the first render: it ranks, publishes and warms at every snapshot.
Snapshot ==
    /\ mounted
    /\ Len(calls) < MaxCalls
    /\ \E vs \in {p \in Pools : Len(p) <= MaxAppPool} :
          /\ rawVideos' = vs
          /\ \E order \in applySmartRecommendations(build, vs, interactions, userInterests) :
                /\ displayed' = order
                /\ calls' = Append(calls,
                       initSmartBuffering(build, online, Urls(order), cacheStore))
    /\ UNCHANGED <<build, playerVars, narrationVars, homeVars, interactions, userInterests, ranked, prevRanked, rankCalls,
                   allocVars, marqueeVars, online, cacheStore, warmInput, cleanupVars,
                   mounted, isRefreshing, refreshOrder, refreshAwait>>

\* handleManualRefresh up to its await (part_005:100-111); with an empty
\* order there is no await and the handler runs to its end
ManualRefresh ==
    /\ mounted
    /\ ~isRefreshing
    /\ Len(calls) + CallsNeeded(rawVideos) <= MaxCalls
    /\ \E newOrder \in applySmartRecommendations(build, rawVideos, interactions,
                                                   userInterests) :
          IF Len(newOrder) > 0
          THEN /\ isRefreshing' = TRUE
               /\ refreshOrder' = newOrder
               /\ calls' = Append(calls,
                      initSmartBuffering(build, online,
                                         Urls(SliceFrom(newOrder, 0, FirstBatch)), cacheStore))
               /\ refreshAwait' = Len(calls) + 1
               /\ displayed' = displayed
          ELSE /\ displayed' = newOrder
               /\ UNCHANGED <<isRefreshing, refreshOrder, calls, refreshAwait>>
    /\ UNCHANGED <<build, playerVars, narrationVars, homeVars, rankVars, allocVars, marqueeVars, online, cacheStore, warmInput,
                   cleanupVars, mounted>>

\* handleManualRefresh after its await (part_005:113-123): the awaited call
\* has resolved; it publishes, clears the flag and warms the next five
RefreshResume ==
    /\ isRefreshing
    /\ refreshAwait > 0
    /\ calls[refreshAwait].state = "resolved"
    /\ displayed' = refreshOrder
    /\ isRefreshing' = FALSE
    /\ refreshAwait' = 0
    /\ calls' = IF Len(refreshOrder) > FirstBatch
                THEN Append(calls,
                        initSmartBuffering(build, online,
                           Urls(SliceFrom(refreshOrder, FirstBatch, SecondBatchEnd)),
                           cacheStore))
                ELSE calls
    /\ UNCHANGED <<build, playerVars, narrationVars, homeVars, rankVars, allocVars, marqueeVars, online, cacheStore, warmInput,
                   cleanupVars, mounted, refreshOrder>>

----------------------------------------------------------------------------
(* Idle values of the components a specification does not run *)

RankIdle ==
    /\ rawVideos = <<>>
    /\ interactions = [likedIds |-> <<>>, dislikedIds |-> <<>>, watchHistory |-> <<>>]
    /\ userInterests = <<>>
    /\ ranked = <<>>
    /\ prevRanked = <<>>
    /\ rankCalls = 0

AllocIdle ==
    /\ videos = <<>>
    /\ sections = <<>>
    /\ distribution = <<>>
    /\ passes = 0

HomeIdle == homeBatches = <<>>

NarrationIdle ==
    /\ currentAudio = 0
    /\ audioPlaying = {}
    /\ narrationPc = [c \in 1..MaxNarrations |-> "idle"]
    /\ retryCount = [c \in 1..MaxNarrations |-> 0]
    /\ isNarrating = FALSE
    /\ callsBeforeStop = {}

PlayerIdle ==
    /\ selectedShort = 0
    /\ selectedLong = 0
    /\ toast = ""
    /\ toastTimers = 0

DragIdle ==
    /\ startX = 0
    /\ scrollLeftState = 0
    /\ velX = "slow"
    /\ lastX = 0
    /\ resumeTimers = 0
    /\ resumeLive = FALSE

MarqueeIdle ==
    /\ marqueeVideos = <<>>
    /\ direction = "right-to-left"
    /\ marqueeDisplay = <<>>
    /\ clientWidth = 0
    /\ scrollLeft = 0
    /\ isDragging = FALSE
    /\ internalSpeed = 0
    /\ resetPending = FALSE
    /\ DragIdle

CacheIdle ==
    /\ online = TRUE
    /\ cacheStore = <<>>
    /\ warmInput = <<>>
    /\ calls = <<>>

CleanupIdle ==
    /\ cleanupPc = "idle"
    /\ cleanupKeys = <<>>
    /\ cleanupIndex = 0

AppIdle ==
    /\ mounted = FALSE
    /\ displayed = <<>>
    /\ isRefreshing = FALSE
    /\ refreshOrder = <<>>
    /\ refreshAwait = 0

----------------------------------------------------------------------------
(* Specification of the ranker: the inputs are drawn, the ranker is called *)

InitRank ==
    /\ PlayerIdle
    /\ NarrationIdle
    /\ AllocIdle
    /\ MarqueeIdle
    /\ CacheIdle
    /\ CleanupIdle
    /\ HomeIdle
    /\ AppIdle
    /\ build \in Builds
    /\ rawVideos \in Pools
    /\ interactions \in InteractionStates
    /\ userInterests \in InterestLists
    /\ ranked = <<>>
    /\ prevRanked = <<>>
    /\ rankCalls = 0

\* One call of applySmartRecommendations(rawVideos, interactions); two calls
\* on the same inputs are followed
CallRank ==
    /\ rankCalls < 2
    /\ \E out \in applySmartRecommendations(build, rawVideos, interactions, userInterests) :
            ranked' = out
    /\ prevRanked' = ranked
    /\ rankCalls' = rankCalls + 1
    /\ UNCHANGED <<build, playerVars, narrationVars, homeVars, rawVideos, interactions, userInterests, allocVars,
                   marqueeVars, cacheVars, cleanupVars, appVars>>

NextRank == CallRank

SpecRank == InitRank /\ [][NextRank]_vars

----------------------------------------------------------------------------
(* Specification of the ranker with the tie-breaker at zero: every         *)
(* Math.random() of scoreVideo returns 0                                   *)

\* pools of videos none of which is trending, in any order
PlainPools ==
    UNION {Perms([i \in 1..Len(Ascending(S)) |->
                    [Video(Ascending(S)[i], TypeOfId(Ascending(S)[i]))
                        EXCEPT !.is_trending = FALSE]]) :
            S \in SUBSET VideoIds}

InitRankTied ==
    /\ PlayerIdle
    /\ NarrationIdle
    /\ AllocIdle
    /\ MarqueeIdle
    /\ CacheIdle
    /\ CleanupIdle
    /\ HomeIdle
    /\ AppIdle
    /\ build \in Builds
    /\ rawVideos \in Pools \cup PlainPools
    /\ interactions \in InteractionStates
    /\ userInterests \in InterestLists
    /\ ranked = <<>>
    /\ prevRanked = <<>>
    /\ rankCalls = 0

\* One call of applySmartRecommendations(rawVideos, interactions) during
\* which scoreVideo draws 0 every time
CallRankTied ==
    /\ rankCalls < 2
    /\ \E out \in applySmartRecommendationsTied(build, rawVideos, interactions,
                                                 userInterests) :
            ranked' = out
    /\ prevRanked' = ranked
    /\ rankCalls' = rankCalls + 1
    /\ UNCHANGED <<build, playerVars, narrationVars, homeVars, rawVideos, interactions, userInterests, allocVars,
                   marqueeVars, cacheVars, cleanupVars, appVars>>

NextRankTied == CallRankTied

SpecRankTied == InitRankTied /\ [][NextRankTied]_vars

----------------------------------------------------------------------------
(* Specification of the allocator: a ranked list and a layout are drawn,   *)
(* the layout component evaluates distributedContent                       *)

\* a ranked list: ids in ranked order, every pattern of types
TypedLists(lo, hi) ==
    UNION {{[i \in 1..n |-> Video(i, t[i])] : t \in [1..n -> VideoTypes]} : n \in lo..hi}

Layouts(n) == UNION {[1..k -> SectionTypes] : k \in 0..n}

\* layouts tried on the slider-filling lists: those of one or two sections
\* in which no slider comes before another slider or before a shorts_grid
WideLayouts ==
    UNION {{<<t>>, <<t, "long_video">>, <<"long_video", t>>, <<"shorts_grid", t>>} :
            t \in {"long_slider", "slider_left", "slider_right"}}
        \cup {<<"shorts_grid">>, <<"shorts_grid", "shorts_grid">>,
               <<"shorts_grid", "long_video">>, <<"long_video", "shorts_grid">>}

InitAlloc ==
    /\ PlayerIdle
    /\ NarrationIdle
    /\ RankIdle
    /\ MarqueeIdle
    /\ CacheIdle
    /\ CleanupIdle
    /\ HomeIdle
    /\ AppIdle
    /\ build = "src"
    /\ \/ /\ videos \in TypedLists(0, MaxAllocPool)
          /\ sections \in Layouts(MaxSections)
       \/ /\ videos \in TypedLists(SliderCount, SliderCount + MaxExtra)
          /\ sections \in WideLayouts
    /\ distribution = <<>>
    /\ passes = 0

\* One evaluation of the useMemo distributedContent
Allocate ==
    /\ passes = 0
    /\ \E d \in distributedContent(videos, sections) : distribution' = d
    /\ passes' = passes + 1
    /\ UNCHANGED <<build, playerVars, narrationVars, homeVars, rankVars, videos, sections, marqueeVars, cacheVars,
                   cleanupVars, appVars>>

NextAlloc == Allocate

SpecAlloc == InitAlloc /\ [][NextAlloc]_vars

----------------------------------------------------------------------------
(* Specification of the allocator evaluated again: the useMemo runs once   *)
(* more whenever React re-evaluates it with the same list and sections     *)

InitRealloc ==
    /\ PlayerIdle
    /\ NarrationIdle
    /\ RankIdle
    /\ MarqueeIdle
    /\ CacheIdle
    /\ CleanupIdle
    /\ HomeIdle
    /\ AppIdle
    /\ build = "src"
    /\ videos \in TypedLists(0, MaxAllocPool)
    /\ sections \in Layouts(MaxSections)
    /\ distribution = <<>>
    /\ passes = 0
    /\ Cardinality(distributedContent(videos, sections)) <= MaxOutcomes

\* A later evaluation of the useMemo distributedContent
Reallocate ==
    /\ passes \in 1..(MaxPasses - 1)
    /\ \E d \in distributedContent(videos, sections) : distribution' = d
    /\ passes' = passes + 1
    /\ UNCHANGED <<build, playerVars, narrationVars, homeVars, rankVars, videos, sections, marqueeVars, cacheVars,
                   cleanupVars, appVars>>

NextRealloc == Allocate \/ Reallocate

SpecRealloc == InitRealloc /\ [][NextRealloc]_vars

----------------------------------------------------------------------------
(* Specification of the fixed home layout: a ranked list is laid out       *)

\* ranked lists of s Shorts and l Long Videos, one type after the other
BlockLists ==
    UNION {{[i \in 1..(s + l) |-> Video(i, IF i <= s THEN "Shorts" ELSE "Long Video")],
            [i \in 1..(s + l) |-> Video(i, IF i <= l THEN "Long Video" ELSE "Shorts")]} :
           s \in 0..MaxHomeShorts, l \in 0..MaxHomeLongs}

InitHome ==
    /\ PlayerIdle
    /\ NarrationIdle
    /\ RankIdle
    /\ MarqueeIdle
    /\ CacheIdle
    /\ CleanupIdle
    /\ AppIdle
    /\ build \in Builds
    /\ videos \in BlockLists \cup TypedLists(0, MaxAllocPool)
    /\ sections = <<>>
    /\ distribution = <<>>
    /\ passes = 0
    /\ homeBatches = <<>>

NextHome == LayoutHome

SpecHome == InitHome /\ [][NextHome]_vars

----------------------------------------------------------------------------
(* Specification of the feed: the App ranks its pool and hands the ranked  *)
(* list to MainContent, whose layout component allocates it to sections    *)

EmptyInteractions == [likedIds |-> <<>>, dislikedIds |-> <<>>, watchHistory |-> <<>>]

InitFeed ==
    /\ PlayerIdle
    /\ NarrationIdle
    /\ MarqueeIdle
    /\ CacheIdle
    /\ CleanupIdle
    /\ HomeIdle
    /\ AppIdle
    /\ build \in Builds
    /\ \/ /\ rawVideos = <<>>
          /\ interactions \in InteractionStates
          /\ sections \in Layouts(1)
       \/ /\ rawVideos \in Pools
          /\ interactions = EmptyInteractions
          /\ sections \in Layouts(MaxSections)
    /\ userInterests \in InterestLists
    /\ ranked = <<>>
    /\ prevRanked = <<>>
    /\ rankCalls = 0
    /\ videos = <<>>
    /\ distribution = <<>>
    /\ passes = 0

\* The layout is rendered with the list of the latest ranking: safeVideos is
\* the videos prop and distributedContent is evaluated on it
RenderLayout ==
    /\ passes < rankCalls
    /\ videos' = ranked
    /\ \E d \in distributedContent(ranked, sections) : distribution' = d
    /\ passes' = passes + 1
    /\ UNCHANGED <<build, playerVars, narrationVars, homeVars, rankVars, sections, marqueeVars, cacheVars, cleanupVars,
                   appVars>>

\* The ranking of the mount effect: the first call of the session
RankAtMount ==
    /\ rankCalls = 0
    /\ CallRank

NextFeed == RankAtMount \/ RenderLayout

SpecFeed == InitFeed /\ [][NextFeed]_vars

----------------------------------------------------------------------------
(* Specification of the marquee: a marquee is mounted with a list and a    *)
(* direction; frames, timers and new lists follow                          *)

InitMarquee ==
    /\ PlayerIdle
    /\ NarrationIdle
    /\ RankIdle
    /\ AllocIdle
    /\ CacheIdle
    /\ CleanupIdle
    /\ HomeIdle
    /\ AppIdle
    /\ build \in Builds
    /\ marqueeVideos \in SourceLists
    /\ direction \in Directions
    /\ marqueeDisplay = displayVideos(build, marqueeVideos)
    /\ clientWidth \in ClientWidths
    /\ scrollLeft = 0
    /\ isDragging = FALSE
    /\ internalSpeed = initialSpeed(direction)
    /\ resetPending = (build = "root" /\ Len(marqueeVideos) > 0)
    /\ DragIdle

NextMarquee == Animate \/ ResetToThird \/ SourceChange

SpecMarquee == InitMarquee /\ [][NextMarquee]_vars

\* animate requests the next frame at the end of every frame, and the 150 ms
\* timer of the [videos] effect fires unless the effect is cleaned up; the
\* parent need not ever pass another list
MarqueeFairness == WF_vars(Animate) /\ WF_vars(ResetToThird)

SpecMarqueeFair == InitMarquee /\ [][NextMarquee]_vars /\ MarqueeFairness

----------------------------------------------------------------------------
(* Specification of a dragged marquee (MainContent.tsx): a marquee of one   *)
(* video in a container a little narrower than its row; frames, pointer     *)
(* events and timers follow in any order                                    *)

DragSource == <<1>>

InitDrag ==
    /\ PlayerIdle
    /\ NarrationIdle
    /\ RankIdle
    /\ AllocIdle
    /\ CacheIdle
    /\ CleanupIdle
    /\ HomeIdle
    /\ AppIdle
    /\ DragIdle
    /\ build = "root"
    /\ marqueeVideos = DragSource
    /\ direction \in Directions
    /\ marqueeDisplay = displayVideos(build, marqueeVideos)
    /\ clientWidth = ContentWidth(Len(marqueeDisplay)) - MaxDragRoom
    /\ scrollLeft = 0
    /\ isDragging = FALSE
    /\ internalSpeed = initialSpeed(direction)
    /\ resetPending = TRUE

NextDrag ==
    \/ Animate
    \/ ResetToThird
    \/ handleStart
    \/ handleMove
    \/ handleEnd
    \/ ResumeTimerFires

SpecDrag == InitDrag /\ [][NextDrag]_vars

----------------------------------------------------------------------------
(* Specification of one warm call: a caller passes a list to                *)
(* initSmartBuffering once; the lookups, fetches and writes of the call     *)
(* settle in any order                                                      *)

\* a URL cached in an earlier session that is in no list
OldUrl == MaxList + 1

\* lists of distinct URLs, the first video possibly without a usable URL
WarmLists ==
    {[i \in 1..n |-> IF i = z THEN 0 ELSE i] : n \in 0..MaxList, z \in 0..1}

\* the cache as the session finds it
StoresFound == {<<>>, <<OldUrl>>, <<1, OldUrl>>}

InitWarm ==
    /\ PlayerIdle
    /\ NarrationIdle
    /\ RankIdle
    /\ AllocIdle
    /\ MarqueeIdle
    /\ CleanupIdle
    /\ HomeIdle
    /\ AppIdle
    /\ build \in Builds
    /\ online \in BOOLEAN
    /\ cacheStore \in StoresFound
    /\ warmInput \in WarmLists
    /\ calls = <<>>

CallWarm ==
    /\ calls = <<>>
    /\ calls' = <<initSmartBuffering(build, online, warmInput, cacheStore)>>
    /\ UNCHANGED <<build, playerVars, narrationVars, homeVars, rankVars, allocVars, marqueeVars, cleanupVars, appVars,
                   online, cacheStore, warmInput>>

NextWarm == CallWarm \/ MatchStep \/ FetchStep \/ PutStep

SpecWarm == InitWarm /\ [][NextWarm]_vars

----------------------------------------------------------------------------
(* Specification of the maintenance pass: the mount effect starts a warm   *)
(* call and cleanUpOldCache together on the store it finds; their steps    *)
(* settle in any order                                                     *)

\* a URL no entry of the found store has
NewUrl == MaxStore + 1

\* the store the pass finds: entries 1..n in insertion order
CleanupStores ==
    {[j \in 1..n |-> j] : n \in {0, KeepNewest, CacheCeiling, CacheCeiling + 1, MaxStore}}

\* the lists warmed next to the pass: the oldest URL, a new one, both
CleanupWarmLists == {<<>>, <<1>>, <<NewUrl>>, <<1, NewUrl>>}

InitCleanup ==
    /\ PlayerIdle
    /\ NarrationIdle
    /\ RankIdle
    /\ AllocIdle
    /\ MarqueeIdle
    /\ CleanupIdle
    /\ HomeIdle
    /\ AppIdle
    /\ build = "src"
    /\ online \in BOOLEAN
    /\ cacheStore \in CleanupStores
    /\ warmInput \in CleanupWarmLists
    /\ calls = <<>>

\* initSmartBuffering(...); cleanUpOldCache(); neither is awaited
WarmAndCleanUp ==
    /\ calls = <<>>
    /\ cleanupPc = "idle"
    /\ calls' = <<initSmartBuffering(build, online, warmInput, cacheStore)>>
    /\ cleanupPc' = "keys"
    /\ UNCHANGED <<build, playerVars, narrationVars, homeVars, rankVars, allocVars, marqueeVars, appVars, online, cacheStore,
                   warmInput, cleanupKeys, cleanupIndex>>

NextCleanup ==
    WarmAndCleanUp \/ MatchStep \/ FetchStep \/ PutStep \/ CleanupKeys \/ CleanupDelete

SpecCleanup == InitCleanup /\ [][NextCleanup]_vars

----------------------------------------------------------------------------
(* Specification of a session of the App (part_005 with src/src/smartCache): *)
(* it starts with the list of localStorage and the cache of the earlier      *)
(* sessions; mount, snapshots and manual refreshes follow, and the steps of  *)
(* the warm calls and of the maintenance pass settle in any order            *)

\* the cache an earlier session left: k entries of videos of that time
FoundStore(k) == [j \in 1..k |-> MaxPool + j]

InitApp ==
    /\ PlayerIdle
    /\ NarrationIdle
    /\ AllocIdle
    /\ MarqueeIdle
    /\ CleanupIdle
    /\ HomeIdle
    /\ AppIdle
    /\ build = "src"
    /\ rawVideos \in {p \in Pools : Len(p) <= MaxAppPool}
    /\ interactions = [likedIds |-> <<>>, dislikedIds |-> <<>>, watchHistory |-> <<>>]
    /\ userInterests = <<>>
    /\ ranked = <<>>
    /\ prevRanked = <<>>
    /\ rankCalls = 0
    /\ online \in BOOLEAN
    /\ cacheStore \in {FoundStore(k) : k \in {0, MaxFound - 1, MaxFound}}
    /\ warmInput = <<>>
    /\ calls = <<>>

NextApp ==
    \/ Mount
    \/ Snapshot
    \/ ManualRefresh
    \/ RefreshResume
    \/ MatchStep
    \/ FetchStep
    \/ PutStep
    \/ CleanupKeys
    \/ CleanupDelete

SpecApp == InitApp /\ [][NextApp]_vars

\* What the runtime guarantees: the mount effect runs, a cache lookup, a cache
\* write, cache.keys and cache.delete settle, and a handler suspended at an
\* await resumes once the awaited promise has resolved.  A fetch has no
\* timeout and may stay pending for ever; snapshots and refreshes are up to
\* the server and the user.
AppFairness ==
    /\ WF_vars(Mount)
    /\ WF_vars(MatchStep)
    /\ WF_vars(PutStep)
    /\ WF_vars(CleanupKeys)
    /\ WF_vars(CleanupDelete)
    /\ WF_vars(RefreshResume)

SpecAppFair == InitApp /\ [][NextApp]_vars /\ AppFairness

----------------------------------------------------------------------------
(* Specification of the narration player: the caller calls playNarrative   *)
(* and stopCurrentNarrative at any time; the awaits settle in any order    *)

InitNarration ==
    /\ PlayerIdle
    /\ RankIdle
    /\ AllocIdle
    /\ HomeIdle
    /\ MarqueeIdle
    /\ CleanupIdle
    /\ AppIdle
    /\ NarrationIdle
    /\ build = "root"
    /\ online \in BOOLEAN
    /\ cacheStore = <<>>
    /\ warmInput = <<>>
    /\ calls = <<>>

NextNarration ==
    \/ \E c \in 1..MaxNarrations : playNarrative(c)
    \/ \E c \in 1..MaxNarrations : KeyLookupSettles(c)
    \/ \E c \in 1..MaxNarrations : SpeechSettles(c)
    \/ \E c \in 1..MaxNarrations : RotateSettles(c)
    \/ \E c \in 1..MaxNarrations : BlobSettles(c)
    \/ \E c \in 1..MaxNarrations : AudioEnded(c)
    \/ StopNarrative

SpecNarration == InitNarration /\ [][NextNarration]_vars

----------------------------------------------------------------------------
(* Specification of the interaction handlers: the App holds the whole       *)
(* catalogue and an interaction state read from localStorage; the user      *)
(* opens and closes players, likes, dislikes and restores in any order      *)

\* the whole catalogue, in the order of the ids
Catalogue == [i \in 1..MaxPool |-> Video(i, TypeOfId(i))]

InitInteract ==
    /\ AllocIdle
    /\ HomeIdle
    /\ PlayerIdle
    /\ NarrationIdle
    /\ MarqueeIdle
    /\ CacheIdle
    /\ CleanupIdle
    /\ AppIdle
    /\ build \in Builds
    /\ rawVideos = Catalogue
    /\ interactions \in {ui \in InteractionStates : ui.watchHistory = <<>>}
    /\ userInterests = <<>>
    /\ ranked = <<>>
    /\ prevRanked = <<>>
    /\ rankCalls = 0

NextInteract ==
    \/ handleLikeToggle
    \/ handleDislike
    \/ onRestore
    \/ playShortVideo
    \/ playLongVideo
    \/ onClose
    \/ ToastExpires

SpecInteract == InitInteract /\ [][NextInteract]_vars

----------------------------------------------------------------------------
(* Claims about the ranker *)

\* seen, as the claims state it: liked, disliked, or watched strictly past 10%
ClaimSeen(id) ==
    \/ \E i \in 1..Len(interactions.likedIds) : interactions.likedIds[i] = id
    \/ \E i \in 1..Len(interactions.dislikedIds) : interactions.dislikedIds[i] = id
    \/ \E i \in 1..Len(interactions.watchHistory) :
            /\ interactions.watchHistory[i].id = id
            /\ interactions.watchHistory[i].progress > 10

\* number of pool videos that are not seen
UnseenCount == Cardinality({i \in 1..Len(rawVideos) : ~ClaimSeen(rawVideos[i].id)})

\* C1: in the list the ranker returns no unseen video comes after a seen one:
\* the first UnseenCount positions hold exactly the videos that are neither
\* liked, nor disliked, nor watched strictly past 10% (a video watched to
\* exactly 10% is among them), and every later position holds a seen video.
C1_UnseenBeforeSeen ==
    rankCalls > 0 =>
        /\ \A i \in 1..Len(ranked) : (i <= UnseenCount) <=> ~ClaimSeen(ranked[i].id)
        /\ \A i, j \in 1..Len(ranked) :
                (i < j /\ ClaimSeen(ranked[i].id)) => ClaimSeen(ranked[j].id)

\* C1 witness: a call returned a list with a seen video and with an unseen
\* video whose watch progress is exactly 10%.
C1_Witness ==
    /\ rankCalls > 0
    /\ \E i \in 1..Len(ranked) : ClaimSeen(ranked[i].id)
    /\ \E i \in 1..Len(ranked) :
            /\ ~ClaimSeen(ranked[i].id)
            /\ \E k \in 1..Len(interactions.watchHistory) :
                    /\ interactions.watchHistory[k].id = ranked[i].id
                    /\ interactions.watchHistory[k].progress = 10

\* C2 as stated: two calls with the same pool, interaction state and
\* top-interest list return exactly the same order.
C2_SameOrder == rankCalls = 2 => ranked = prevRanked

\* C2 amended: two calls with the same inputs return the same videos with the
\* same split: the same unseen videos fill the leading positions of both
\* lists and the same seen videos the rest; the order inside a part may differ.
C2_SameSplit ==
    rankCalls = 2 =>
        /\ Len(ranked) = Len(prevRanked)
        /\ {ranked[i] : i \in 1..Min(UnseenCount, Len(ranked))}
             = {prevRanked[i] : i \in 1..Min(UnseenCount, Len(prevRanked))}
        /\ {ranked[i] : i \in (UnseenCount + 1)..Len(ranked)}
             = {prevRanked[i] : i \in (UnseenCount + 1)..Len(prevRanked)}

\* C2 witness: two calls on a pool with unseen and seen videos returned
\* different orders.
C2_Witness ==
    /\ rankCalls = 2
    /\ ranked # prevRanked
    /\ UnseenCount > 0
    /\ UnseenCount < Len(rawVideos)

\* the video's category is one of the top interests
ClaimInterest(v) == \E k \in 1..Len(userInterests) : userInterests[k] = v.category

\* C19: the random tie-breaker never reorders across bonus tiers: within the
\* unseen part and within the seen part of the list the ranker returns,
\* every video of a top-interest category precedes every video of another
\* category, and among videos of the same interest status every trending
\* video precedes every video that is not trending.
C19_TiersKept ==
    rankCalls > 0 =>
        \A i, j \in 1..Len(ranked) :
            (i < j /\ ClaimSeen(ranked[i].id) = ClaimSeen(ranked[j].id)) =>
                /\ ClaimInterest(ranked[j]) => ClaimInterest(ranked[i])
                /\ (ClaimInterest(ranked[i]) = ClaimInterest(ranked[j])
                        /\ ranked[j].is_trending) => ranked[i].is_trending

\* C17: when all scores tie (no category in the top interests, nothing
\* trending, the tie-breaker at zero) the ranker returns the unseen videos
\* in their pool order followed by the seen videos in their pool order.
C17_TiedKeepsPoolOrder ==
    (/\ rankCalls > 0
     /\ \A i \in 1..Len(rawVideos) : Bonus(rawVideos[i], userInterests) = 0)
        => ranked = UnseenVideos(rawVideos, interactions)
                        \o SeenVideos(rawVideos, interactions)

\* ids the interaction state names
MarkedIds ==
    Range(interactions.likedIds) \cup Range(interactions.dislikedIds)
        \cup {interactions.watchHistory[i].id : i \in 1..Len(interactions.watchHistory)}

\* C28: the list the ranker returns is a permutation of the pool: it is as
\* long as the pool, every pool video is at exactly one position of it and
\* every position holds a pool video, whatever the interaction state names
\* (ids outside the pool included) and whatever the random draws give.
C28_OutputIsPermutation ==
    rankCalls > 0 =>
        /\ Len(ranked) = Len(rawVideos)
        /\ \A i \in 1..Len(rawVideos) :
                Cardinality({j \in 1..Len(ranked) : ranked[j] = rawVideos[i]}) = 1
        /\ \A j \in 1..Len(ranked) : \E i \in 1..Len(rawVideos) : ranked[j] = rawVideos[i]

\* C28 witness: a call on a pool with a seen and an unseen video, with an
\* interaction state that also names an id outside the pool, returned the
\* pool in another order.
C28_Witness ==
    /\ rankCalls > 0
    /\ ranked # rawVideos
    /\ \E i, j \in 1..Len(rawVideos) :
            ClaimSeen(rawVideos[i].id) /\ ~ClaimSeen(rawVideos[j].id)
    /\ MarkedIds \ Ids(rawVideos) # {}

----------------------------------------------------------------------------
(* Claims about the allocator *)

\* the videos a section of the given type draws from, as the claims state it
ClaimOfType(v, type) ==
    \/ type \in {"slider_left", "slider_right"}
    \/ type = "shorts_grid" /\ v.video_type = "Shorts"
    \/ type \in {"long_video", "long_slider"} /\ v.video_type = "Long Video"

ClaimCount(type) ==
    IF type = "long_video" THEN 1 ELSE IF type = "shorts_grid" THEN 4 ELSE 10

ClaimPoolSize(type) == Cardinality({i \in 1..Len(videos) : ClaimOfType(videos[i], type)})

\* the summed counts of the sections whose type is in T
Demand(T) ==
    LET n(t) == Cardinality({k \in 1..Len(sections) : sections[k] = t})
    IN  n("long_video") * (IF "long_video" \in T THEN 1 ELSE 0)
        + n("shorts_grid") * (IF "shorts_grid" \in T THEN 4 ELSE 0)
        + n("long_slider") * (IF "long_slider" \in T THEN 10 ELSE 0)
        + n("slider_left") * (IF "slider_left" \in T THEN 10 ELSE 0)
        + n("slider_right") * (IF "slider_right" \in T THEN 10 ELSE 0)

\* every type pool covers the demand of the sections that draw from it, and
\* the list covers the demand of all sections together
SupplyCoversDemand ==
    /\ ClaimPoolSize("shorts_grid") >= Demand({"shorts_grid"})
    /\ ClaimPoolSize("long_video") >= Demand({"long_video", "long_slider"})
    /\ Len(videos) >= Demand({"slider_left", "slider_right"})
    /\ Len(videos) >= Demand(SectionTypes)

\* C3 as stated: when the supply covers the demand, no video id is in the
\* batches of two different sections, whatever the layout.
C3_NoSharedVideo ==
    (passes > 0 /\ SupplyCoversDemand) =>
        \A k1, k2 \in 1..Len(distribution) :
            k1 # k2 => Ids(distribution[k1]) \cap Ids(distribution[k2]) = {}

\* C4: a section's batch has exactly the section's count of videos whenever
\* the list holds at least that many videos of the section's type, whatever
\* the earlier sections took.
C4_FullBatch ==
    passes > 0 =>
        \A k \in 1..Len(sections) :
            ClaimPoolSize(sections[k]) >= ClaimCount(sections[k])
                => Len(distribution[k]) = ClaimCount(sections[k])

\* C4 witness: a section got its full count although an earlier section had
\* taken videos of its type, so that part of its batch is recycled.
C4_Witness ==
    /\ passes > 0
    /\ \E k \in 2..Len(sections) :
            /\ ClaimPoolSize(sections[k]) >= ClaimCount(sections[k])
            /\ Len(distribution[k]) = ClaimCount(sections[k])
            /\ Ids(distribution[k]) \cap Ids(distribution[k - 1]) # {}

\* C5 as stated: every section whose type pool is non-empty gets exactly its
\* count of videos, also when the pool holds fewer videos than the count.
C5_AlwaysFull ==
    passes > 0 =>
        \A k \in 1..Len(sections) :
            ClaimPoolSize(sections[k]) > 0
                => Len(distribution[k]) = ClaimCount(sections[k])

\* C5 amended: every section gets a batch of exactly min(count, size of its
\* type pool) videos: the recycling fallback fills a batch up to the count,
\* but never beyond the number of videos of the section's type.
C5_FullUpToPool ==
    passes > 0 =>
        \A k \in 1..Len(sections) :
            Len(distribution[k]) = Min(ClaimCount(sections[k]), ClaimPoolSize(sections[k]))

\* C5 witness: a section whose type pool is non-empty but smaller than its
\* count got a batch of the pool's size, part of it recycled.
C5_Witness ==
    /\ passes > 0
    /\ \E k \in 2..Len(sections) :
            /\ ClaimPoolSize(sections[k]) > 0
            /\ ClaimPoolSize(sections[k]) < ClaimCount(sections[k])
            /\ Len(distribution[k]) = ClaimPoolSize(sections[k])
            /\ Ids(distribution[k]) \cap Ids(distribution[k - 1]) # {}

\* the unique picks of section k as the claim states them: the first `count`
\* videos of the section's type, in ranked order, that no earlier section
\* took as a unique pick
RECURSIVE ClaimUnique(_)
ClaimUnique(k) ==
    LET RECURSIVE TakenBefore(_)
        TakenBefore(j) == IF j = 0 THEN {} ELSE TakenBefore(j - 1) \cup Range(ClaimUnique(j))
        free == SelectSeq(videos, LAMBDA v : ClaimOfType(v, sections[k])
                                              /\ v \notin TakenBefore(k - 1))
    IN  SubSeq(free, 1, Min(ClaimCount(sections[k]), Len(free)))

\* C6: sections are served in list order with one used-id set: each batch
\* starts with the first `count` videos of the section's type, in ranked
\* order, that no earlier section took as a unique pick, and whatever
\* follows them in the batch is recycled (a unique pick of an earlier section).
C6_UniqueInListOrder ==
    passes > 0 =>
        \A k \in 1..Len(sections) :
            LET u == ClaimUnique(k)
                b == distribution[k]
            IN  /\ Len(b) >= Len(u)
                /\ SubSeq(b, 1, Len(u)) = u
                /\ \A i \in (Len(u) + 1)..Len(b) :
                        \E j \in 1..(k - 1) : b[i] \in Range(ClaimUnique(j))

\* C6 witness: two sections drew from the same videos; the later one got
\* unique picks of its own that come after the earlier one's in ranked order.
C6_Witness ==
    /\ passes > 0
    /\ Len(sections) >= 2
    /\ ClaimUnique(1) # <<>>
    /\ ClaimUnique(2) # <<>>
    /\ distribution[1][1].video_type = distribution[2][1].video_type
    /\ distribution[2][1].id > distribution[1][Len(ClaimUnique(1))].id

\* the ids given to the sections before section k, in whatever way
GivenBefore(k) == UNION {Ids(distribution[j]) : j \in 1..(k - 1)}

\* the videos of the type of section k that no earlier section was given, in
\* ranked order
StillUnused(k) ==
    SelectSeq(videos, LAMBDA v : ClaimOfType(v, sections[k]) /\ v.id \notin GivenBefore(k))

\* C20: recycling happens only on exhaustion: a batch contains a video
\* already given to an earlier section only if fewer than the section's
\* count of unused videos of its type remained when it was served; the batch
\* then starts with all of those remaining videos and only the rest of it
\* is recycled.
C20_RecycleOnExhaustion ==
    passes > 0 =>
        \A k \in 1..Len(sections) :
            Ids(distribution[k]) \cap GivenBefore(k) # {} =>
                /\ Len(StillUnused(k)) < ClaimCount(sections[k])
                /\ Len(distribution[k]) >= Len(StillUnused(k))
                /\ SubSeq(distribution[k], 1, Len(StillUnused(k))) = StillUnused(k)
                /\ \A i \in (Len(StillUnused(k)) + 1)..Len(distribution[k]) :
                      distribution[k][i].id \in GivenBefore(k)

\* C20 witness: 6 shorts and two shorts_grid sections; the second gets the
\* 2 shorts that remained and 2 of the 4 shorts of the first
C20_Witness ==
    /\ passes > 0
    /\ sections = <<"shorts_grid", "shorts_grid">>
    /\ ClaimPoolSize("shorts_grid") = 6
    /\ Len(distribution[1]) = 4
    /\ Len(StillUnused(2)) = 2
    /\ Len(distribution[2]) = 4
    /\ {distribution[2][3].id, distribution[2][4].id} \subseteq Ids(distribution[1])

\* the unique part of a batch of section k: its first videos, as many as
\* the section has unique picks
UniquePart(batch, k) == SubSeq(batch, 1, Min(Len(batch), Len(ClaimUnique(k))))

\* C15: the allocation is deterministic in its unique part and keeps no
\* state between calls: an evaluation over the same list and sections
\* assigns every section the same non-recycled videos in the same order as
\* the evaluation before it, however many evaluations ran before.
C15_UniquePartRepeats ==
    [][Reallocate =>
          /\ Len(distribution') = Len(distribution)
          /\ \A k \in 1..Len(sections) :
                /\ UniquePart(distribution'[k], k) = UniquePart(distribution[k], k)
                /\ UniquePart(distribution'[k], k) = ClaimUnique(k)]_vars

\* C15 witness: the third evaluation of a layout of two sections of one
\* type, each with unique picks of its own, the second one also recycling
C15_Witness ==
    /\ passes = MaxPasses
    /\ Len(sections) = 2
    /\ ClaimUnique(1) # <<>>
    /\ ClaimUnique(2) # <<>>
    /\ ClaimOfType(distribution[2][1], sections[1])
    /\ Len(distribution[2]) > Len(ClaimUnique(2))

\* C16: absent input never fails: the ranker on an empty pool returns the
\* empty list, the allocator on an empty section list returns the empty
\* mapping, and a section whose type pool is empty receives an empty batch
\* while every other section is still served from its pool.
C16_AbsentInput ==
    /\ (rankCalls > 0 /\ rawVideos = <<>>) => ranked = <<>>
    /\ (passes > 0 /\ sections = <<>>) => distribution = <<>>
    /\ passes > 0 =>
          /\ Len(distribution) = Len(sections)
          /\ \A k \in 1..Len(sections) :
                IF ClaimPoolSize(sections[k]) = 0
                THEN distribution[k] = <<>>
                ELSE /\ distribution[k] # <<>>
                     /\ \A i \in 1..Len(distribution[k]) :
                           ClaimOfType(distribution[k][i], sections[k])

\* C16 witness: a ranked list without a Long Video is laid out in a
\* long_video section followed by a section that is served
C16_Witness ==
    /\ passes > 0
    /\ Len(sections) = 2
    /\ videos # <<>>
    /\ ClaimPoolSize(sections[1]) = 0
    /\ distribution[1] = <<>>
    /\ distribution[2] # <<>>

\* the videos of the source of call k that no earlier batch holds, in ranked
\* order
HomeUnused(k) ==
    SelectSeq(videos, LAMBDA v :
        /\ v.video_type = HomePlan(build)[k].type
        /\ \A j \in 1..(k - 1) : v.id \notin Ids(homeBatches[j]))

\* C26: the fixed home layout never recycles: in one pass no video id is in
\* two of its batches; each batch is the first `count` not-yet-used videos
\* of its source in ranked order, and is shorter than `count` (possibly
\* empty) when the source runs out.
C26_HomeNeverRecycles ==
    homeBatches # <<>> =>
        /\ Len(homeBatches) = Len(HomePlan(build))
        /\ \A j, k \in 1..Len(homeBatches) :
              j < k => Ids(homeBatches[j]) \cap Ids(homeBatches[k]) = {}
        /\ \A k \in 1..Len(homeBatches) :
              homeBatches[k] =
                  SubSeq(HomeUnused(k), 1, Min(HomePlan(build)[k].count, Len(HomeUnused(k))))

\* C26 witness: a pass in which a source ran out: one batch is full, a later
\* batch of the same source is short and a still later one is empty
C26_Witness ==
    /\ homeBatches # <<>>
    /\ Len(homeBatches[1]) = HomePlan(build)[1].count
    /\ \E k \in 2..Len(homeBatches) :
          /\ HomePlan(build)[k].type = "Shorts"
          /\ homeBatches[k] # <<>>
          /\ Len(homeBatches[k]) < HomePlan(build)[k].count
    /\ homeBatches[Len(homeBatches) - 1] = <<>>

\* C29: after one allocation pass no video id occurs at two positions of one
\* section's batch, also in a batch that the recycling fallback has filled up.
C29_NoRepeatInSection ==
    passes > 0 =>
        \A k \in 1..Len(distribution) :
            \A i, j \in 1..Len(distribution[k]) :
                i # j => distribution[k][i].id # distribution[k][j].id

\* C29 witness: a pass returned a batch of two videos or more of which the
\* unique part is followed by two recycled videos or more.
C29_Witness ==
    /\ passes > 0
    /\ \E k \in 1..Len(distribution) :
            /\ Len(UniquePicks(SectionPool(videos, sections[k]), SectionCount(sections[k]),
                               UsedBefore(videos, sections, k))) >= 1
            /\ Len(distribution[k])
                  >= 2 + Len(UniquePicks(SectionPool(videos, sections[k]),
                                         SectionCount(sections[k]),
                                         UsedBefore(videos, sections, k)))

----------------------------------------------------------------------------
(* Claims about the interaction handlers *)

\* no element at two positions
DuplicateFree(list) == \A i, j \in 1..Len(list) : i # j => list[i] # list[j]

\* C30: starting from likedIds and dislikedIds that are disjoint and
\* duplicate-free, in every state reached by like-toggles, dislikes and
\* restores no id is in both lists and neither list holds an id twice.
C30_ListsStayDisjoint ==
    /\ Range(interactions.likedIds) \cap Range(interactions.dislikedIds) = {}
    /\ DuplicateFree(interactions.likedIds)
    /\ DuplicateFree(interactions.dislikedIds)

\* C30 witness: the handlers have acted: dislikedIds holds two ids in an
\* order no stored state has (a later dislike of a smaller id), likedIds
\* holds an id, and the toast of a restore is showing.
C30_Witness ==
    /\ Len(interactions.dislikedIds) >= 2
    /\ interactions.dislikedIds[1] > interactions.dislikedIds[2]
    /\ interactions.likedIds # <<>>
    /\ toast = "restored"

----------------------------------------------------------------------------
(* Claims about the narration player *)

\* C27: the narration player is a singleton: in every reachable state, for
\* every interleaving of playNarrative and stopCurrentNarrative calls and of
\* the awaits inside playNarrative, at most one narration audio is playing,
\* and no audio made by a call of playNarrative that was made before the
\* caller's latest stopCurrentNarrative() is playing.
C27_SingletonNarration ==
    /\ Cardinality(audioPlaying) <= 1
    /\ audioPlaying \cap callsBeforeStop = {}

----------------------------------------------------------------------------
(* Claims about the marquee *)

\* the video rendered at offset x of the row (0 in a gap, in the padding or
\* past the end of the row)
VideoAt(x) ==
    LET pitch == ItemWidth + Gap
        k == (x - PadX) \div pitch
    IN  IF x < PadX \/ k >= Len(marqueeDisplay) \/ (x - PadX) % pitch >= ItemWidth
        THEN 0
        ELSE marqueeDisplay[k + 1]

\* the offset animate reaches before its wrap test
Advanced == SetScroll(scrollLeft + internalSpeed, marqueeDisplay, clientWidth)

\* C7 as stated: across a wrap reset of animate no position of the visible
\* window shows another video than before the reset, for every source length
\* and both directions (a position that shows a gap or the padding before or
\* after the reset is not compared).
C7_WrapContinuity ==
    [][(Animate /\ ~isDragging /\ scrollLeft' # Advanced) =>
          \A w \in 0..(clientWidth - 1) :
              \/ VideoAt(scrollLeft' + w) = VideoAt(Advanced + w)
              \/ VideoAt(scrollLeft' + w) = 0
              \/ VideoAt(Advanced + w) = 0]_vars

\* C8 as stated: the rendered list is the source list 3 times when the
\* source has 5 or more videos, 5 times when it has 1 to 4, empty when empty.
C8_Replication ==
    marqueeDisplay =
        IF Len(marqueeVideos) = 0 THEN <<>>
        ELSE IF Len(marqueeVideos) >= 5
             THEN marqueeVideos \o marqueeVideos \o marqueeVideos
             ELSE marqueeVideos \o marqueeVideos \o marqueeVideos
                    \o marqueeVideos \o marqueeVideos

\* C13: whenever a release timer fires, the autoplay velocity becomes the one
\* configured at mount (negative for left-to-right, positive for
\* right-to-left, of magnitude DEFAULT_SPEED), whatever the release velocity.
C13_ReleaseRestoresSpeed ==
    [][ResumeTimerFires =>
          /\ internalSpeed' = initialSpeed(direction)
          /\ (direction = "left-to-right" => internalSpeed' = -DEFAULT_SPEED)
          /\ (direction = "right-to-left" => internalSpeed' = DEFAULT_SPEED)]_vars

\* a drag that moved the pointer and the offset has been released, no drag is
\* in progress, every release timer has fired and the velocity is the
\* configured one, not the 0 of the drag
C13_Witness ==
    /\ ~isDragging
    /\ resumeTimers = 0
    /\ velX \in {"neg", "slow"}
    /\ lastX # startX
    /\ scrollLeft # scrollLeftState
    /\ internalSpeed = initialSpeed(direction)
    /\ internalSpeed # 0

\* C14 as stated: when a marquee that shows a list is given another
\* (non-empty) list, the scroll offset is set to one third of the width of the
\* new surface, at once or by a reset that the change schedules.
C14_SourceChangeResets ==
    [][(SourceChange /\ marqueeVideos # <<>> /\ marqueeVideos' # <<>>) =>
          \/ resetPending'
          \/ scrollLeft' = ScrollWidth(marqueeDisplay', clientWidth) \div 3]_vars

\* the offset a pointer move at clientX asks for: the offset captured at
\* pointer-down minus 1.5 times the displacement since pointer-down, kept
\* within the scrollable range
DragTarget(clientX) ==
    SetScroll(scrollLeftState - (3 * (clientX - startX)) \div 2, marqueeDisplay, clientWidth)

\* C23: while a drag is in progress the animation frames leave the scroll
\* offset unchanged and perform no wrap reset; the offset is set only by
\* pointer moves, to the offset captured at pointer-down minus 1.5 times the
\* pointer displacement since pointer-down.
C23_DragOwnsOffset ==
    [][(isDragging /\ isDragging') =>
          /\ Animate => scrollLeft' = scrollLeft
          /\ scrollLeft' # scrollLeft => handleMove
          /\ handleMove => scrollLeft' = DragTarget(lastX')]_vars

\* C24: in every reachable state in which the marquee is being dragged the
\* autoplay velocity is zero, whatever pointer-down, pointer-move and
\* release events and timer firings came before: a timer started by an
\* earlier release never restores the velocity during a later drag.
C24_DraggingIsStill == isDragging => internalSpeed = 0

\* a frame whose wrap test moves the offset by a third of the row, against
\* the direction of travel
WrapFires ==
    /\ Animate
    /\ IF internalSpeed > 0 THEN scrollLeft' < Advanced ELSE scrollLeft' > Advanced

\* C22: the replicated surface is never exhausted under autoplay: for every
\* source list of 1 video or more and every container width, a marquee that
\* is left to its autoplay (the list is not replaced any more) performs a
\* wrap reset again and again; it never comes to rest at a scroll limit.
C22_WrapRecurs ==
    \/ []<><<SourceChange>>_vars
    \/ []<>(marqueeVideos = <<>>)
    \/ []<><<WrapFires>>_vars

----------------------------------------------------------------------------
(* Claims about the prefetch cache *)

\* C9 as stated: when a warm call has finished, the store has an entry for
\* every URL of the list whose fetch succeeded and none for a URL whose fetch
\* failed (unless the entry was there before the call), and the call has not
\* rejected.
C9_FailureIsolation ==
    \A c \in 1..Len(calls) :
        AllDone(calls[c]) =>
            /\ calls[c].state # "rejected"
            /\ \A i \in 1..Len(calls[c].urls) :
                  /\ calls[c].fetched[i] \in {"ok", "partial"}
                        => calls[c].urls[i] \in Range(cacheStore)
                  /\ calls[c].fetched[i] \in {"bad_status", "network_error"}
                        => \/ calls[c].urls[i] \notin Range(cacheStore)
                           \/ calls[c].urls[i] \in Range(calls[c].storeAtCall)

\* C10 as stated: once the store holds more than 50 entries, no further warm
\* call adds an entry before a maintenance pass has brought it back to 50 or
\* fewer: while the store is above 50 and no maintenance pass is under way,
\* a call made when the store held more than 50 entries has stored nothing.
C10_CeilingRestored ==
    \A c \in 1..Len(calls) :
        (/\ Len(calls[c].storeAtCall) > CacheCeiling
         /\ Len(cacheStore) > CacheCeiling
         /\ cleanupPc \in {"idle", "done"})
            => \A i \in 1..Len(calls[c].urls) : ~calls[c].stored[i]

\* C11 as stated: a URL that has an entry when the warm call is made is never
\* fetched by that call, and a call whose URLs all have entries leaves the
\* store as it was.
C11_HitIsNoOp ==
    \A c \in 1..Len(calls) :
        /\ \A i \in 1..Len(calls[c].urls) :
              calls[c].urls[i] \in Range(calls[c].storeAtCall)
                  => /\ calls[c].pc[i] \notin {"fetch", "put"}
                     /\ calls[c].fetched[i] = "none"
        /\ (\A i \in 1..Len(calls[c].urls) :
                calls[c].urls[i] \in Range(calls[c].storeAtCall))
              => cacheStore = calls[c].storeAtCall

\* C12 as stated: every manual refresh that has started reaches the state in
\* which its new order is displayed and the refreshing flag is cleared, even
\* when a prefetch request never completes.
C12_RefreshCompletes ==
    isRefreshing ~> (~isRefreshing /\ displayed = refreshOrder)

\* the URLs of a call that have a usable address
CallUrls(call) == {call.urls[i] : i \in 1..Len(call.urls)} \ {0}

\* C18: when two warm calls over overlapping lists have both finished,
\* whatever the order in which their steps settled, the store holds exactly
\* one entry for every URL whose fetch succeeded in at least one of the
\* calls.
C18_ConcurrentWarm ==
    \A c, d \in 1..Len(calls) :
        (/\ c < d
         /\ AllDone(calls[c])
         /\ AllDone(calls[d])
         /\ CallUrls(calls[c]) \cap CallUrls(calls[d]) # {}
         /\ cleanupPc \in {"idle", "done"})
            => \A u \in CallUrls(calls[c]) \cup CallUrls(calls[d]) :
                  (\E e \in {c, d} : \E i \in 1..Len(calls[e].urls) :
                        /\ calls[e].urls[i] = u
                        /\ FetchSucceeded(calls[e].fetched[i]))
                     => Cardinality({j \in 1..Len(cacheStore) : cacheStore[j] = u}) = 1

\* a warm call of the session has stored the URL
PutByCall(u) ==
    \E c \in 1..Len(calls) : \E i \in 1..Len(calls[c].urls) :
        calls[c].urls[i] = u /\ calls[c].stored[i]

\* the entries of a sequence of keys that no warm call of the session stored
NotPut(keys) == SelectSeq(keys, LAMBDA u : ~PutByCall(u))

\* C21: a maintenance pass that reads more than 50 keys removes the oldest
\* in insertion order and leaves exactly the 20 newest of them; a pass that
\* reads 50 keys or fewer removes nothing; no entry is removed while an
\* older one is kept, whatever entries were read in between (an entry that
\* a warm call stores during the session is a new insertion and is set
\* aside).
C21_OldestRemoved ==
    LET n == Len(cleanupKeys)
    IN  /\ cleanupPc \in {"delete", "done"} =>
              \A i \in 1..n :
                  (cleanupKeys[i] \in Range(cacheStore) /\ ~PutByCall(cleanupKeys[i]))
                      => \A j \in (i + 1)..n : cleanupKeys[j] \in Range(cacheStore)
        /\ (cleanupPc = "done" /\ n > CacheCeiling) =>
              /\ NotPut(cacheStore) = NotPut(SubSeq(cleanupKeys, n - KeepNewest + 1, n))
              /\ \A i \in (n - KeepNewest + 1)..n : cleanupKeys[i] \in Range(cacheStore)
              /\ (\A u \in Range(cacheStore) : ~PutByCall(u))
                    => Len(cacheStore) = KeepNewest
        /\ (cleanupPc = "done" /\ n <= CacheCeiling) =>
              \A i \in 1..n : cleanupKeys[i] \in Range(cacheStore)

\* C21 witness: the pass has run on more than 50 entries after a warm call
\* read the oldest one; that entry is gone and the 20 newest are left
C21_Witness ==
    /\ cleanupPc = "done"
    /\ Len(cleanupKeys) > CacheCeiling + 1
    /\ Len(calls) = 1
    /\ calls[1].urls = <<1>>
    /\ calls[1].pc = <<"done">>
    /\ calls[1].fetched = <<"none">>
    /\ 1 \notin Range(cacheStore)
    /\ Len(cacheStore) = KeepNewest

\* C25: the displayed order is stable while the user browses: once a
\* display list has been published it is replaced only by a manual refresh;
\* a later snapshot of the realtime sync never replaces or re-ranks it.
C25_DisplayStable ==
    [][(displayed # <<>> /\ displayed' # displayed) => (ManualRefresh \/ RefreshResume)]_vars

====
